---- MODULE Spec2Model ----
(***************************************************************************)
(* A model of the household REST API (src/server): the persistent store   *)
(* as one record of tables, every request handler as an operator from the *)
(* store before the request to the store its statements leave behind and  *)
(* the response, and get_db's commit / rollback around it.                *)
(* Requests that run at the same time are modelled statement by           *)
(* statement, each on a connection of its own (conns), over the committed *)
(* database db.                                                            *)
(*                                                                         *)
(* schema.sql is not part of src/: what the handlers rely on from it      *)
(* (column defaults, ON DELETE CASCADE, the item_stores key, the unique   *)
(* names and the foreign keys) is modelled from the specification and     *)
(* kept in operators of its own                                            *)
(* whose names begin with schema_, so that what rests on it is visible.   *)
(***************************************************************************)
EXTENDS Integers, Sequences, FiniteSets, TLC

VARIABLES db, resp, now, conns

vars == <<db, resp, now, conns>>

(***************************************************************************)
(* Bounds of the model: the largest row id each table hands out, and the  *)
(* last tick of the clock.                                                *)
(***************************************************************************)
MaxStores == 2
MaxItems == 2
MaxTemplates == 3
MaxTemplateItems == 2
MaxGroceryItems == 2
MaxProviders == 1
MaxAppointments == 2
MaxTime == 2
MaxTasks == 2

(***************************************************************************)
(* Optional values (Python None / SQL NULL): the empty tuple is NULL, a   *)
(* present value v is <<v>>.                                               *)
(***************************************************************************)
Null == <<>>
Some(v) == <<v>>
Val(o) == o[1]

(* The users table is filled outside the API (tests/conftest.py inserts    *)
(* rows directly); no router writes it.                                    *)
Users == {1, 2}
(* An id that names no row of any table (the tests use it for that).       *)
MissingId == 99999

Max(S) == CHOOSE x \in S : \A y \in S : y <= x

(* cursor.lastrowid after an INSERT: the new row's id, above every id of  *)
(* the table.                                                              *)
lastrowid(rows) == IF rows = {} THEN 1 ELSE Max({r.id : r \in rows}) + 1

Row(rows, id) == CHOOSE r \in rows : r.id = id
Exists(rows, id) == \E r \in rows : r.id = id

(***************************************************************************)
(* What a handler leaves behind: the store as its statements left it, the *)
(* status code, the body (or the error detail), and whether it ended by   *)
(* raising.                                                                *)
(***************************************************************************)
Return(d, status, body) ==
    [db |-> d, raised |-> FALSE, status |-> status, body |-> body]

(* raise HTTPException(status_code, detail) *)
HTTPException(d, status, detail) ==
    [db |-> d, raised |-> TRUE, status |-> status, body |-> detail]

(* An exception no handler catches (OverflowError, sqlite3.IntegrityError):*)
(* the framework answers 500.                                              *)
Unhandled(d, what) ==
    [db |-> d, raised |-> TRUE, status |-> 500, body |-> <<what>>]

(* The writes of a body that raised kept.                                  *)
get_db_no_rollback(before, r) == r.db

(* database.get_db: commit when the body ends normally, rollback when it   *)
(* raises.                                                                 *)
get_db(before, r) == IF r.raised THEN before ELSE r.db

EmptyDb ==
    [users |-> Users,
     stores |-> {},
     items |-> {},
     item_stores |-> {},
     grocery_items |-> {},
     grocery_templates |-> {},
     grocery_template_items |-> {},
     providers |-> {},
     appointments |-> {},
     tasks |-> {}]

NoResp == [op |-> "none", args |-> <<>>, status |-> 0, body |-> <<>>]

(* The connections of the requests that run concurrently: FastAPI runs    *)
(* the handlers (plain def) in a thread pool, and every get_db() opens a  *)
(* connection of its own.                                                  *)
ConnOrder == <<"c1", "c2">>
Conns == {ConnOrder[n] : n \in 1..Len(ConnOrder)}

(* A connection not opened yet.                                            *)
NoConn ==
    [pc |-> "idle", op |-> "none", args |-> <<>>, loc |-> <<>>, work |-> Null,
     raised |-> FALSE, status |-> 0, body |-> <<>>, log |-> <<>>]

Init ==
    /\ db = EmptyDb
    /\ resp = NoResp
    /\ now = 0
    /\ conns = [c \in Conns |-> NoConn]

(* One request: the handler's result r goes through get_db, and the        *)
(* response is recorded with the request it answers.                       *)
Request(op, args, r) ==
    /\ db' = get_db(db, r)
    /\ resp' = [op |-> op, args |-> args, status |-> r.status, body |-> r.body]
    /\ UNCHANGED <<now, conns>>

(* CURRENT_TIMESTAMP moves on between requests.                            *)
Tick ==
    /\ now < MaxTime
    /\ now' = now + 1
    /\ UNCHANGED <<db, resp, conns>>

(***************************************************************************)
(* Grocery templates (routers/templates.py)                                *)
(***************************************************************************)
TemplateNames == {"Weekly", "Pets"}

(* The clearing UPDATE left out.                                           *)
ClearDefaults_skipped(templates, user_id, keep) == templates

(* The clearing UPDATE without its WHERE user_id = ?.                      *)
ClearDefaults_every_user(templates, user_id, keep) ==
    {IF r.id # keep THEN [r EXCEPT !.is_default = FALSE] ELSE r : r \in templates}

(* UPDATE grocery_templates SET is_default = 0 WHERE user_id = ?           *)
(* [AND id != ?]: keep is the id left out (0 leaves none out).             *)
ClearDefaults(templates, user_id, keep) ==
    {IF r.user_id = user_id /\ r.id # keep
        THEN [r EXCEPT !.is_default = FALSE]
        ELSE r : r \in templates}

create_template(d, t, name, is_default, user_id) ==
    IF user_id \notin d.users
    THEN HTTPException(d, 404, <<"User", user_id>>)
    ELSE LET cleared == IF is_default
                        THEN ClearDefaults(d.grocery_templates, user_id, 0)
                        ELSE d.grocery_templates
             row == [id |-> lastrowid(cleared), name |-> name,
                     is_default |-> is_default, user_id |-> user_id,
                     created_at |-> t, updated_at |-> t]
         IN Return([d EXCEPT !.grocery_templates = cleared \cup {row}], 201, row)

update_template(d, t, template_id, name, is_default) ==
    IF ~Exists(d.grocery_templates, template_id)
    THEN HTTPException(d, 404, <<"Template", template_id>>)
    ELSE LET user_id == Row(d.grocery_templates, template_id).user_id
             cleared == IF is_default = Some(TRUE)
                        THEN ClearDefaults(d.grocery_templates, user_id, template_id)
                        ELSE d.grocery_templates
             old == Row(cleared, template_id)
             new == [old EXCEPT
                       !.name = IF name # Null THEN Val(name) ELSE @,
                       !.is_default = IF is_default # Null THEN Val(is_default) ELSE @,
                       !.updated_at = t]
             written == IF name # Null \/ is_default # Null
                        THEN (cleared \ {old}) \cup {new}
                        ELSE cleared
         IN Return([d EXCEPT !.grocery_templates = written], 200,
                   Row(written, template_id))

(* grocery_template_items.template_id REFERENCES grocery_templates         *)
(* ON DELETE CASCADE.                                                      *)
schema_cascade_template(d, template_id) ==
    [d EXCEPT !.grocery_template_items =
        {ti \in @ : ti.template_id # template_id}]

delete_template(d, template_id) ==
    IF ~Exists(d.grocery_templates, template_id)
    THEN HTTPException(d, 404, <<"Template", template_id>>)
    ELSE Return(schema_cascade_template(
                  [d EXCEPT !.grocery_templates = {r \in @ : r.id # template_id}],
                  template_id),
                204, <<>>)

TemplateIds == 1..MaxTemplates \cup {MissingId}

(* cap is the number of template rows the specification lets exist.        *)
CreateTemplate(names, defaults, users, cap) ==
    \E name \in names, is_default \in defaults, user_id \in users :
        /\ lastrowid(db.grocery_templates) <= cap
        /\ Request("create_template", <<name, is_default, user_id>>,
                   create_template(db, now, name, is_default, user_id))

UpdateTemplate ==
    \E template_id \in TemplateIds,
       name \in {Null} \cup {Some(n) : n \in TemplateNames},
       is_default \in {Null, Some(TRUE), Some(FALSE)} :
        Request("update_template", <<template_id, name, is_default>>,
                update_template(db, now, template_id, name, is_default))

DeleteTemplate ==
    \E template_id \in TemplateIds :
        Request("delete_template", <<template_id>>,
                delete_template(db, template_id))

(* The operations that write grocery_templates.                            *)
NextTemplates ==
    \/ CreateTemplate(TemplateNames, BOOLEAN, Users \cup {MissingId}, MaxTemplates)
    \/ UpdateTemplate
    \/ DeleteTemplate

SpecTemplates == Init /\ [][NextTemplates]_vars

(***************************************************************************)
(* Text. A Python str is the tuple of its characters; names are compared  *)
(* only for equality and for ORDER BY name, by their place in ByteOrder   *)
(* (SQLite's BINARY collation on these names).                            *)
(***************************************************************************)
ByteOrder == <<"Aldi", "Apples", "Butter", "Costco">>
StoreNames == {"Aldi", "Costco"}
ItemNames == {"Apples", "Butter"}
Rank(name) == CHOOSE i \in 1..Len(ByteOrder) : ByteOrder[i] = name

RECURSIVE OrderByName(_)
(* ORDER BY name *)
OrderByName(rows) ==
    IF rows = {} THEN <<>>
    ELSE LET first == CHOOSE r \in rows :
                        \A q \in rows : Rank(r.name) <= Rank(q.name)
         IN <<first>> \o OrderByName(rows \ {first})

RECURSIVE Repeat(_, _)
Repeat(x, n) == IF n = 0 THEN <<>> ELSE <<x>> \o Repeat(x, n - 1)

RECURSIVE Flatten(_)
Flatten(seqs) == IF seqs = <<>> THEN <<>> ELSE Head(seqs) \o Flatten(Tail(seqs))

(***************************************************************************)
(* Stores (routers/stores.py)                                              *)
(***************************************************************************)
(* The duplicate-name SELECT without its AND id != ?.                      *)
NameTaken_self(rows, name, own_id) == \E r \in rows : r.name = name

(* SELECT id FROM <table> WHERE name = ? [AND id != ?]: own_id is the row  *)
(* being renamed (0 on a create, where every row counts).                  *)
NameTaken(rows, name, own_id) == \E r \in rows : r.name = name /\ r.id # own_id

create_store(d, t, name) ==
    IF NameTaken(d.stores, name, 0)
    THEN HTTPException(d, 409, <<"Store", name>>)
    ELSE LET row == [id |-> lastrowid(d.stores), name |-> name,
                     created_at |-> t, updated_at |-> t]
         IN Return([d EXCEPT !.stores = @ \cup {row}], 201, row)

update_store(d, t, store_id, name) ==
    IF ~Exists(d.stores, store_id)
    THEN HTTPException(d, 404, <<"Store", store_id>>)
    ELSE IF name # Null /\ NameTaken(d.stores, Val(name), store_id)
    THEN HTTPException(d, 409, <<"Store", Val(name)>>)
    ELSE LET old == Row(d.stores, store_id)
             new == [old EXCEPT !.name = Val(name), !.updated_at = t]
             written == IF name # Null THEN (d.stores \ {old}) \cup {new}
                        ELSE d.stores
         IN Return([d EXCEPT !.stores = written], 200, Row(written, store_id))

(* The dependent count coming back 0.                                      *)
StoreDependents_zero(d, store_id) == 0

(* SELECT COUNT ... FROM item_stores WHERE store_id = ? *)
StoreDependents(d, store_id) ==
    Cardinality({p \in d.item_stores : p.store_id = store_id})

delete_store(d, store_id) ==
    IF ~Exists(d.stores, store_id)
    THEN HTTPException(d, 404, <<"Store", store_id>>)
    ELSE IF StoreDependents(d, store_id) > 0
    THEN HTTPException(d, 409, <<"items reference this store",
                                 StoreDependents(d, store_id)>>)
    ELSE Return([d EXCEPT !.stores = {s \in @ : s.id # store_id}], 204, <<>>)

(***************************************************************************)
(* Items and their stores (routers/items.py)                               *)
(***************************************************************************)
(* _get_item_stores: the item's stores, ORDER BY s.name *)
_get_item_stores(d, item_id) ==
    OrderByName({s \in d.stores :
                   \E p \in d.item_stores :
                       p.item_id = item_id /\ p.store_id = s.id})

(* The item's row with its stores embedded. *)
ItemWithStores(d, item) ==
    [id |-> item.id, name |-> item.name,
     default_quantity |-> item.default_quantity,
     quantity_is_int |-> item.quantity_is_int, section |-> item.section,
     created_at |-> item.created_at, updated_at |-> item.updated_at,
     stores |-> _get_item_stores(d, item.id)]

(* item_stores is a table, so a bag of rows: copy numbers the rows that   *)
(* hold one (item_id, store_id) pair.                                      *)
SamePair(p, q) == p.item_id = q.item_id /\ p.store_id = q.store_id

(* The table without a key: every INSERT accepted.                         *)
schema_item_stores_key_absent(item_stores, pair) == TRUE

(* The key of item_stores, (item_id, store_id): a second INSERT of a pair  *)
(* raises sqlite3.IntegrityError.                                          *)
schema_item_stores_key(item_stores, pair) ==
    ~\E p \in item_stores : SamePair(p, pair)

RECURSIVE InsertItemStores(_, _, _)
(* for store_id in store_ids: INSERT INTO item_stores; ok is FALSE once an *)
(* INSERT raised, and the rows are those written up to there.              *)
InsertItemStores(item_stores, item_id, store_ids) ==
    IF store_ids = <<>> THEN [rows |-> item_stores, ok |-> TRUE]
    ELSE LET pair == [item_id |-> item_id, store_id |-> Head(store_ids)]
             row == [item_id |-> item_id, store_id |-> Head(store_ids),
                     copy |-> 1 + Cardinality({p \in item_stores :
                                                  SamePair(p, pair)})]
         IN IF schema_item_stores_key(item_stores, pair)
            THEN InsertItemStores(item_stores \cup {row}, item_id, Tail(store_ids))
            ELSE [rows |-> item_stores, ok |-> FALSE]

(* The INSERTs without the DELETE before them.                             *)
_set_item_stores_added(d, item_id, store_ids) ==
    LET r == InsertItemStores(d.item_stores, item_id, store_ids)
    IN [db |-> [d EXCEPT !.item_stores = r.rows], ok |-> r.ok]

_set_item_stores(d, item_id, store_ids) ==
    LET r == InsertItemStores({p \in d.item_stores : p.item_id # item_id},
                              item_id, store_ids)
    IN [db |-> [d EXCEPT !.item_stores = r.rows], ok |-> r.ok]

(* The first store id of the list that names no store, or 0.               *)
FirstMissingStore(d, store_ids) ==
    IF \A i \in 1..Len(store_ids) : Exists(d.stores, store_ids[i]) THEN 0
    ELSE store_ids[CHOOSE i \in 1..Len(store_ids) :
                      /\ ~Exists(d.stores, store_ids[i])
                      /\ \A j \in 1..(i - 1) : Exists(d.stores, store_ids[j])]

create_item(d, t, name, default_quantity, quantity_is_int, section, store_ids) ==
    IF NameTaken(d.items, name, 0)
    THEN HTTPException(d, 409, <<"Item", name>>)
    ELSE IF FirstMissingStore(d, store_ids) # 0
    THEN HTTPException(d, 404, <<"Store", FirstMissingStore(d, store_ids)>>)
    ELSE LET row == [id |-> lastrowid(d.items), name |-> name,
                     default_quantity |-> default_quantity,
                     quantity_is_int |-> quantity_is_int, section |-> section,
                     created_at |-> t, updated_at |-> t]
             inserted == [d EXCEPT !.items = @ \cup {row}]
             set == _set_item_stores(inserted, row.id, store_ids)
         IN IF set.ok
            THEN Return(set.db, 201, ItemWithStores(set.db, row))
            ELSE Unhandled(set.db, "IntegrityError")

(* ItemUpdate: every field optional, None meaning not supplied.            *)
update_item(d, t, item_id, u) ==
    IF ~Exists(d.items, item_id)
    THEN HTTPException(d, 404, <<"Item", item_id>>)
    ELSE IF u.name # Null /\ NameTaken(d.items, Val(u.name), item_id)
    THEN HTTPException(d, 409, <<"Item", Val(u.name)>>)
    ELSE LET old == Row(d.items, item_id)
             new == [old EXCEPT
                       !.name = IF u.name # Null THEN Val(u.name) ELSE @,
                       !.default_quantity =
                           IF u.default_quantity # Null THEN u.default_quantity ELSE @,
                       !.quantity_is_int =
                           IF u.quantity_is_int # Null THEN Val(u.quantity_is_int) ELSE @,
                       !.section = IF u.section # Null THEN u.section ELSE @,
                       !.updated_at = t]
             fields == u.name # Null \/ u.default_quantity # Null
                         \/ u.quantity_is_int # Null \/ u.section # Null
             updated == IF fields
                        THEN [d EXCEPT !.items = (@ \ {old}) \cup {new}]
                        ELSE d
         IN IF u.store_ids = Null
            THEN Return(updated, 200, ItemWithStores(updated, Row(updated.items, item_id)))
            ELSE IF FirstMissingStore(updated, Val(u.store_ids)) # 0
            THEN HTTPException(updated, 404,
                               <<"Store", FirstMissingStore(updated, Val(u.store_ids))>>)
            ELSE LET set == _set_item_stores(updated, item_id, Val(u.store_ids))
                 IN IF set.ok
                    THEN Return(set.db, 200,
                                ItemWithStores(set.db, Row(set.db.items, item_id)))
                    ELSE Unhandled(set.db, "IntegrityError")

(* item_stores, grocery_items and grocery_template_items reference items   *)
(* ON DELETE CASCADE.                                                      *)
schema_cascade_item(d, item_id) ==
    [d EXCEPT !.item_stores = {p \in @ : p.item_id # item_id},
              !.grocery_items = {g \in @ : g.item_id # item_id},
              !.grocery_template_items = {ti \in @ : ti.item_id # item_id}]

(* The DELETE with no row following it.                                    *)
delete_item_alone(d, item_id) ==
    IF ~Exists(d.items, item_id)
    THEN HTTPException(d, 404, <<"Item", item_id>>)
    ELSE Return([d EXCEPT !.items = {i \in @ : i.id # item_id}], 204, <<>>)

delete_item(d, item_id) ==
    IF ~Exists(d.items, item_id)
    THEN HTTPException(d, 404, <<"Item", item_id>>)
    ELSE Return(schema_cascade_item([d EXCEPT !.items = {i \in @ : i.id # item_id}],
                                    item_id),
                204, <<>>)

(* FROM items i LEFT JOIN item_stores ist ON i.id = ist.item_id: one row   *)
(* per association of the item, or one row with ist.* NULL when it has     *)
(* none.                                                                   *)
LeftJoinItemStores(d, item) ==
    IF \E p \in d.item_stores : p.item_id = item.id
    THEN {[store_id |-> Some(p.store_id), copy |-> p.copy] :
             p \in {q \in d.item_stores : q.item_id = item.id}}
    ELSE {[store_id |-> Null, copy |-> 1]}

(* The filter with an inner join's effect: unassociated items dropped.     *)
StoreFilter_inner(ist_store_id, store_id) == ist_store_id = Some(store_id)

(* WHERE (ist.store_id = ? OR ist.store_id IS NULL) *)
StoreFilter(ist_store_id, store_id) ==
    ist_store_id = Some(store_id) \/ ist_store_id = Null

(* AND (? IS NULL OR i.section = ?) *)
SectionFilter(item, section) == section = Null \/ item.section = section

(* The rows a SELECT [DISTINCT] of the item's columns yields for one item: *)
(* one per joined row that passes the filter, one at most when DISTINCT.   *)
Copies(n, distinct) == IF distinct /\ n > 1 THEN 1 ELSE n

list_items(d, store_id, section) ==
    LET ordered == OrderByName({i \in d.items : SectionFilter(i, section)})
        count(i) ==
            IF store_id = Null THEN 1
            ELSE Copies(Cardinality({j \in LeftJoinItemStores(d, i) :
                                        StoreFilter(j.store_id, Val(store_id))}),
                        TRUE)
    IN Return(d, 200,
              Flatten([k \in 1..Len(ordered) |->
                         Repeat(ItemWithStores(d, ordered[k]), count(ordered[k]))]))

(***************************************************************************)
(* The catalog: stores, items and their associations.                      *)
(***************************************************************************)
Sections == {Null, Some("Dairy")}

(* store_ids of a request: lists of up to two ids, a repeated id and an    *)
(* id of no store among them.                                              *)
StoreIds == 1..MaxStores \cup {MissingId}
ItemIds == 1..MaxItems \cup {MissingId}
StoreIdLists ==
    {<<>>} \cup {<<a>> : a \in StoreIds} \cup {<<a, b>> : a, b \in StoreIds}

NoItemUpdate ==
    [name |-> Null, default_quantity |-> Null, quantity_is_int |-> Null,
     section |-> Null, store_ids |-> Null]

(* The request actions take the sets their inputs are drawn from, so that *)
(* each specification below draws the inputs its properties are about.    *)
CreateStore(names) ==
    \E name \in names :
        /\ lastrowid(db.stores) <= MaxStores
        /\ Request("create_store", <<name>>, create_store(db, now, name))

UpdateStore(names) ==
    \E store_id \in StoreIds, name \in names :
        Request("update_store", <<store_id, name>>,
                update_store(db, now, store_id, name))

DeleteStore ==
    \E store_id \in StoreIds :
        Request("delete_store", <<store_id>>, delete_store(db, store_id))

CreateItem(names, quantities, flags, sections, lists) ==
    \E name \in names, default_quantity \in quantities, quantity_is_int \in flags,
       section \in sections, store_ids \in lists :
        /\ lastrowid(db.items) <= MaxItems
        /\ Request("create_item",
                   <<name, default_quantity, quantity_is_int, section, store_ids>>,
                   create_item(db, now, name, default_quantity, quantity_is_int,
                               section, store_ids))

UpdateItem(updates) ==
    \E item_id \in ItemIds, u \in updates :
        Request("update_item", <<item_id, u>>, update_item(db, now, item_id, u))

DeleteItem ==
    \E item_id \in ItemIds :
        Request("delete_item", <<item_id>>, delete_item(db, item_id))

ListItems ==
    \E store_id \in {Null} \cup {Some(i) : i \in StoreIds}, section \in Sections :
        Request("list_items", <<store_id, section>>,
                list_items(db, store_id, section))

(***************************************************************************)
(* SpecNames: the operations that write stores.name and items.name, over  *)
(* every way of naming and renaming; store lists only as far as they make *)
(* a request fail.                                                         *)
(***************************************************************************)
OptStoreNames == {Null} \cup {Some(n) : n \in StoreNames}
NameUpdates ==
    {[NoItemUpdate EXCEPT !.name = name, !.store_ids = store_ids] :
        name \in {Null} \cup {Some(n) : n \in ItemNames},
        store_ids \in {Null, Some(<<MissingId>>)}}

NextNames ==
    \/ CreateStore(StoreNames) \/ UpdateStore(OptStoreNames) \/ DeleteStore
    \/ CreateItem(ItemNames, {Null}, {FALSE}, {Null}, {<<>>, <<1>>, <<MissingId>>})
    \/ UpdateItem(NameUpdates)
    \/ DeleteItem

SpecNames == Init /\ [][NextNames]_vars

(***************************************************************************)
(* SpecListItems: items with every set of stores and both sections, and   *)
(* list_items with every filter.                                           *)
(***************************************************************************)
(* The lists that name existing stores, each once.                         *)
StoreSetLists ==
    {<<>>} \cup {<<a>> : a \in 1..MaxStores}
           \cup {l \in {<<a, b>> : a, b \in 1..MaxStores} : l[1] < l[2]}
StoreUpdates ==
    {[NoItemUpdate EXCEPT !.store_ids = Some(l)] : l \in StoreSetLists}

NextListItems ==
    \/ CreateStore(StoreNames)
    \/ CreateItem(ItemNames, {Null}, {FALSE}, Sections, StoreSetLists)
    \/ UpdateItem(StoreUpdates)
    \/ DeleteItem
    \/ ListItems

SpecListItems == Init /\ [][NextListItems]_vars

(***************************************************************************)
(* Providers and appointments (routers/providers.py, appointments.py).    *)
(* The contact columns of a provider and the date, type, notes and        *)
(* patient_name of an appointment are copied from the request to the row  *)
(* and read by no condition; the rows here carry the columns the handlers *)
(* branch on.                                                              *)
(***************************************************************************)
ProviderNames == {"Dr. Smith"}
Titles == {"Checkup"}

create_provider(d, t, name) ==
    LET provider_id == lastrowid(d.providers)
        row == [id |-> provider_id, name |-> name,
                created_at |-> t, updated_at |-> t]
    IN Return([d EXCEPT !.providers = @ \cup {row}], 201, row)

(* SELECT COUNT ... FROM appointments WHERE provider_id = ? *)
ProviderDependents(d, provider_id) ==
    Cardinality({a \in d.appointments : a.provider_id = Some(provider_id)})

delete_provider(d, provider_id) ==
    IF ~Exists(d.providers, provider_id)
    THEN HTTPException(d, 404, <<"Provider", provider_id>>)
    ELSE IF ProviderDependents(d, provider_id) > 0
    THEN HTTPException(d, 409, <<"appointments reference this provider",
                                 ProviderDependents(d, provider_id)>>)
    ELSE Return([d EXCEPT !.providers = {p \in @ : p.id # provider_id}],
                204, <<>>)

(* _get_provider: the provider row of the appointment, None without one   *)
_get_provider(d, provider_id) ==
    IF provider_id # Null /\ Exists(d.providers, Val(provider_id))
    THEN Some(Row(d.providers, Val(provider_id)))
    ELSE Null

AppointmentWithProvider(d, appt) ==
    [id |-> appt.id, title |-> appt.title, provider_id |-> appt.provider_id,
     created_by |-> appt.created_by, created_at |-> appt.created_at,
     updated_at |-> appt.updated_at,
     provider |-> _get_provider(d, appt.provider_id)]

create_appointment(d, t, title, provider_id, created_by) ==
    IF created_by \notin d.users
    THEN HTTPException(d, 404, <<"User", created_by>>)
    ELSE IF provider_id # Null /\ ~Exists(d.providers, Val(provider_id))
    THEN HTTPException(d, 404, <<"Provider", Val(provider_id)>>)
    ELSE LET appt_id == lastrowid(d.appointments)
             row == [id |-> appt_id, title |-> title,
                     provider_id |-> provider_id, created_by |-> created_by,
                     created_at |-> t, updated_at |-> t]
             e == [d EXCEPT !.appointments = @ \cup {row}]
         IN Return(e, 201, AppointmentWithProvider(e, row))

(* provider_id written as it came, None included.                          *)
update_appointment_provider_assigned(d, t, appointment_id, title, provider_id) ==
    IF ~Exists(d.appointments, appointment_id)
    THEN HTTPException(d, 404, <<"Appointment", appointment_id>>)
    ELSE IF provider_id # Null /\ ~Exists(d.providers, Val(provider_id))
    THEN HTTPException(d, 404, <<"Provider", Val(provider_id)>>)
    ELSE LET old == Row(d.appointments, appointment_id)
             new == [old EXCEPT
                       !.title = IF title # Null THEN Val(title) ELSE @,
                       !.provider_id = provider_id,
                       !.updated_at = t]
             written == IF title # Null \/ provider_id # Null
                        THEN (d.appointments \ {old}) \cup {new}
                        ELSE d.appointments
             e == [d EXCEPT !.appointments = written]
         IN Return(e, 200,
                   AppointmentWithProvider(e, Row(written, appointment_id)))

update_appointment(d, t, appointment_id, title, provider_id) ==
    IF ~Exists(d.appointments, appointment_id)
    THEN HTTPException(d, 404, <<"Appointment", appointment_id>>)
    ELSE IF provider_id # Null /\ ~Exists(d.providers, Val(provider_id))
    THEN HTTPException(d, 404, <<"Provider", Val(provider_id)>>)
    ELSE LET old == Row(d.appointments, appointment_id)
             new == [old EXCEPT
                       !.title = IF title # Null THEN Val(title) ELSE @,
                       !.provider_id = IF provider_id # Null
                                       THEN provider_id ELSE @,
                       !.updated_at = t]
             written == IF title # Null \/ provider_id # Null
                        THEN (d.appointments \ {old}) \cup {new}
                        ELSE d.appointments
             e == [d EXCEPT !.appointments = written]
         IN Return(e, 200,
                   AppointmentWithProvider(e, Row(written, appointment_id)))

delete_appointment(d, appointment_id) ==
    IF ~Exists(d.appointments, appointment_id)
    THEN HTTPException(d, 404, <<"Appointment", appointment_id>>)
    ELSE Return([d EXCEPT !.appointments = {a \in @ : a.id # appointment_id}],
                204, <<>>)

ProviderIds == 1..MaxProviders \cup {MissingId}
AppointmentIds == 1..MaxAppointments \cup {MissingId}
OptProviderIds == {Null} \cup {Some(i) : i \in ProviderIds}

CreateProvider ==
    \E name \in ProviderNames :
        /\ lastrowid(db.providers) <= MaxProviders
        /\ Request("create_provider", <<name>>, create_provider(db, now, name))

DeleteProvider ==
    \E provider_id \in ProviderIds :
        Request("delete_provider", <<provider_id>>,
                delete_provider(db, provider_id))

CreateAppointment ==
    \E title \in Titles, provider_id \in OptProviderIds,
       created_by \in {1, MissingId} :
        /\ lastrowid(db.appointments) <= MaxAppointments
        /\ Request("create_appointment", <<title, provider_id, created_by>>,
                   create_appointment(db, now, title, provider_id, created_by))

UpdateAppointment ==
    \E appointment_id \in AppointmentIds, provider_id \in OptProviderIds :
        Request("update_appointment", <<appointment_id, provider_id>>,
                update_appointment(db, now, appointment_id, Null, provider_id))

DeleteAppointment ==
    \E appointment_id \in AppointmentIds :
        Request("delete_appointment", <<appointment_id>>,
                delete_appointment(db, appointment_id))

(***************************************************************************)
(* SpecBlockedDelete: a store with the items that are sold there, the     *)
(* providers with their appointments, and the deletes of all four.        *)
(***************************************************************************)
NextBlockedDelete ==
    \/ CreateStore({"Aldi"})
    \/ CreateItem(ItemNames, {Null}, {FALSE}, {Null}, {<<>>, <<1>>})
    \/ DeleteItem
    \/ DeleteStore
    \/ CreateProvider
    \/ CreateAppointment
    \/ UpdateAppointment
    \/ DeleteAppointment
    \/ DeleteProvider

SpecBlockedDelete == Init /\ [][NextBlockedDelete]_vars

(***************************************************************************)
(* Text and integers.  A str is the tuple of its characters, so that "" *)
(* is the empty tuple and int() can read it character by character; the  *)
(* alphabet is ASCII.  An int is its sign and its decimal digits, of any  *)
(* length, as a Python int is; the 64-bit limit is where SQLite sets it.  *)
(***************************************************************************)
PyDigits == <<"0", "1", "2", "3", "4", "5", "6", "7", "8", "9">>
IsDigit(c) == \E i \in 1..Len(PyDigits) : PyDigits[i] = c
DigitValue(c) == (CHOOSE i \in 1..Len(PyDigits) : PyDigits[i] = c) - 1
IsSpace(c) == c \in {" ", "\t", "\n"}

(* bool(x) of an Optional[str]: None and "" are falsy *)
Truthy(o) == o # Null /\ Val(o) # <<>>

RECURSIVE lstrip(_)
lstrip(s) == IF s # <<>> /\ IsSpace(Head(s)) THEN lstrip(Tail(s)) ELSE s

RECURSIVE rstrip(_)
rstrip(s) ==
    IF s # <<>> /\ IsSpace(s[Len(s)]) THEN rstrip(SubSeq(s, 1, Len(s) - 1)) ELSE s

RECURSIVE DropLeadingZeros(_)
DropLeadingZeros(ds) ==
    IF Len(ds) > 1 /\ Head(ds) = 0 THEN DropLeadingZeros(Tail(ds)) ELSE ds

ValueError == [ok |-> FALSE]

(* int(s) in base 10: surrounding whitespace, one optional sign, digits   *)
(* with single underscores between them; anything else is a ValueError.   *)
PyInt(s) ==
    LET b == rstrip(lstrip(s))
        signed == b # <<>> /\ Head(b) \in {"+", "-"}
        body == IF signed THEN Tail(b) ELSE b
        wellformed ==
            /\ body # <<>>
            /\ IsDigit(body[1])
            /\ IsDigit(body[Len(body)])
            /\ \A i \in 1..Len(body) : IsDigit(body[i]) \/ body[i] = "_"
            /\ \A i \in 1..(Len(body) - 1) : ~(body[i] = "_" /\ body[i + 1] = "_")
        kept == SelectSeq(body, IsDigit)
        digits == DropLeadingZeros([i \in 1..Len(kept) |-> DigitValue(kept[i])])
    IN IF wellformed
       THEN [ok |-> TRUE,
             value |-> [neg |-> signed /\ Head(b) = "-" /\ digits # <<0>>,
                        digits |-> digits]]
       ELSE ValueError

(* 2^63 - 1 and 2^63, digit by digit *)
Int64Max == <<9, 2, 2, 3, 3, 7, 2, 0, 3, 6, 8, 5, 4, 7, 7, 5, 8, 0, 7>>
Int64MinMagnitude == <<9, 2, 2, 3, 3, 7, 2, 0, 3, 6, 8, 5, 4, 7, 7, 5, 8, 0, 8>>

(* a <= b for digit strings of one length *)
RECURSIVE DigitsLeq(_, _)
DigitsLeq(a, b) ==
    IF a = <<>> THEN TRUE
    ELSE IF Head(a) # Head(b) THEN Head(a) < Head(b)
    ELSE DigitsLeq(Tail(a), Tail(b))

(* sqlite3 binds a Python int as a 64-bit INTEGER and raises              *)
(* OverflowError for one outside that range.                               *)
FitsInt64(n) ==
    LET limit == IF n.neg THEN Int64MinMagnitude ELSE Int64Max
    IN \/ Len(n.digits) < Len(limit)
       \/ Len(n.digits) = Len(limit) /\ DigitsLeq(n.digits, limit)

BindsInt(o) == o = Null \/ FitsInt64(Val(o))

RECURSIVE OrderById(_)
OrderById(rows) ==
    IF rows = {} THEN <<>>
    ELSE LET first == CHOOSE r \in rows : \A q \in rows : r.id <= q.id
         IN <<first>> \o OrderById(rows \ {first})

(***************************************************************************)
(* Grocery list entries (routers/grocery_items.py)                         *)
(***************************************************************************)
(* grocery_items.purchased DEFAULT 0 *)
schema_default_purchased == FALSE

(* _get_item_with_stores, for an item that exists *)
_get_item_with_stores(d, item_id) == ItemWithStores(d, Row(d.items, item_id))

GroceryItemWithDetails(d, gi) ==
    [id |-> gi.id, item_id |-> gi.item_id, quantity |-> gi.quantity,
     int_quantity |-> gi.int_quantity, purchased |-> gi.purchased,
     user_id |-> gi.user_id, created_at |-> gi.created_at,
     updated_at |-> gi.updated_at,
     item |-> _get_item_with_stores(d, gi.item_id)]

create_grocery_item(d, t, item_id, quantity, int_quantity, user_id) ==
    IF ~Exists(d.items, item_id)
    THEN HTTPException(d, 404, <<"Item", item_id>>)
    ELSE IF user_id \notin d.users
    THEN HTTPException(d, 404, <<"User", user_id>>)
    ELSE IF ~BindsInt(int_quantity)
    THEN Unhandled(d, "OverflowError")
    ELSE LET row == [id |-> lastrowid(d.grocery_items), item_id |-> item_id,
                     quantity |-> quantity, int_quantity |-> int_quantity,
                     purchased |-> schema_default_purchased,
                     user_id |-> user_id, created_at |-> t, updated_at |-> t]
             e == [d EXCEPT !.grocery_items = @ \cup {row}]
         IN Return(e, 201, GroceryItemWithDetails(e, row))

delete_grocery_item(d, grocery_item_id) ==
    IF ~Exists(d.grocery_items, grocery_item_id)
    THEN HTTPException(d, 404, <<"Grocery item", grocery_item_id>>)
    ELSE Return([d EXCEPT !.grocery_items = {g \in @ : g.id # grocery_item_id}],
                204, <<>>)

(***************************************************************************)
(* Template items and apply_template (routers/templates.py)                *)
(***************************************************************************)
GroceryTemplateItemWithDetails(d, ti) ==
    [id |-> ti.id, item_id |-> ti.item_id, quantity |-> ti.quantity,
     template_id |-> ti.template_id, created_at |-> ti.created_at,
     item |-> _get_item_with_stores(d, ti.item_id)]

add_item_to_template(d, t, template_id, item_id, quantity) ==
    IF ~Exists(d.grocery_templates, template_id)
    THEN HTTPException(d, 404, <<"Template", template_id>>)
    ELSE IF ~Exists(d.items, item_id)
    THEN HTTPException(d, 404, <<"Item", item_id>>)
    ELSE LET row == [id |-> lastrowid(d.grocery_template_items),
                     item_id |-> item_id, quantity |-> quantity,
                     template_id |-> template_id, created_at |-> t]
             e == [d EXCEPT !.grocery_template_items = @ \cup {row}]
         IN Return(e, 201, GroceryTemplateItemWithDetails(e, row))

(* The lookup by the template item's id alone.                             *)
remove_item_from_template_by_id(d, template_id, item_id) ==
    IF ~Exists(d.grocery_template_items, item_id)
    THEN HTTPException(d, 404, <<"Template item", item_id, template_id>>)
    ELSE Return([d EXCEPT !.grocery_template_items = {ti \in @ : ti.id # item_id}],
                204, <<>>)

remove_item_from_template(d, template_id, item_id) ==
    IF ~\E ti \in d.grocery_template_items :
            ti.id = item_id /\ ti.template_id = template_id
    THEN HTTPException(d, 404, <<"Template item", item_id, template_id>>)
    ELSE Return([d EXCEPT !.grocery_template_items = {ti \in @ : ti.id # item_id}],
                204, <<>>)

(* The fallback taken only for None, "" kept as a quantity.                *)
final_quantity_unless_none(quantity, default_quantity) ==
    IF quantity # Null THEN quantity ELSE default_quantity

(* final_quantity = quantity or default_quantity *)
final_quantity(quantity, default_quantity) ==
    IF Truthy(quantity) THEN quantity ELSE default_quantity

(* if quantity_is_int and final_quantity: try int(...) except ValueError  *)
int_quantity(quantity_is_int, final) ==
    IF quantity_is_int /\ Truthy(final) /\ PyInt(Val(final)).ok
    THEN Some(PyInt(Val(final)).value)
    ELSE Null

(* The for loop of apply_template over the rows still to expand: each     *)
(* turn inserts one grocery_items row, and the INSERT that cannot bind    *)
(* its int_quantity ends the loop with the exception.                      *)
RECURSIVE ApplyRows(_, _, _, _, _)
ApplyRows(d, t, template_items, user_id, items_added) ==
    IF template_items = <<>>
    THEN [db |-> d, raised |-> FALSE, items_added |-> items_added]
    ELSE LET ti_row == Head(template_items)
             item_row == Row(d.items, ti_row.item_id)
             final == final_quantity(ti_row.quantity, item_row.default_quantity)
             parsed == int_quantity(item_row.quantity_is_int, final)
             row == [id |-> lastrowid(d.grocery_items),
                     item_id |-> ti_row.item_id, quantity |-> final,
                     int_quantity |-> parsed, purchased |-> FALSE,
                     user_id |-> user_id, created_at |-> t, updated_at |-> t]
         IN IF ~BindsInt(parsed)
            THEN [db |-> d, raised |-> TRUE, items_added |-> items_added]
            ELSE ApplyRows([d EXCEPT !.grocery_items = @ \cup {row}], t,
                           Tail(template_items), user_id, items_added + 1)

(* The apply refused unless the template is the user's own.                *)
apply_template_of_owner(d, t, template_id, user_id) ==
    IF ~Exists(d.grocery_templates, template_id)
    THEN HTTPException(d, 404, <<"Template", template_id>>)
    ELSE IF user_id \notin d.users
    THEN HTTPException(d, 404, <<"User", user_id>>)
    ELSE IF Row(d.grocery_templates, template_id).user_id # user_id
    THEN HTTPException(d, 404, <<"Template", template_id>>)
    ELSE LET template_items ==
                 OrderById({ti \in d.grocery_template_items :
                               ti.template_id = template_id})
             done == ApplyRows(d, t, template_items, user_id, 0)
         IN IF done.raised
            THEN Unhandled(done.db, "OverflowError")
            ELSE Return(done.db, 201,
                        [template_id |-> template_id, user_id |-> user_id,
                         items_added |-> done.items_added])

(* The rows come from a SELECT without ORDER BY on one table; SQLite      *)
(* walks them in rowid order.                                              *)
apply_template(d, t, template_id, user_id) ==
    IF ~Exists(d.grocery_templates, template_id)
    THEN HTTPException(d, 404, <<"Template", template_id>>)
    ELSE IF user_id \notin d.users
    THEN HTTPException(d, 404, <<"User", user_id>>)
    ELSE LET template_items ==
                 OrderById({ti \in d.grocery_template_items :
                               ti.template_id = template_id})
             done == ApplyRows(d, t, template_items, user_id, 0)
         IN IF done.raised
            THEN Unhandled(done.db, "OverflowError")
            ELSE Return(done.db, 201,
                        [template_id |-> template_id, user_id |-> user_id,
                         items_added |-> done.items_added])

GroceryItemIds == 1..MaxGroceryItems \cup {MissingId}
TemplateItemIds == 1..MaxTemplateItems \cup {MissingId}

(* cap, here and in AddItemToTemplate, is the number of rows the          *)
(* specification lets the table hold.                                      *)
CreateGroceryItem(items, quantities, ints, users, cap) ==
    \E item_id \in items, quantity \in quantities, n \in ints, user_id \in users :
        /\ lastrowid(db.grocery_items) <= cap
        /\ Request("create_grocery_item", <<item_id, quantity, n, user_id>>,
                   create_grocery_item(db, now, item_id, quantity, n, user_id))

DeleteGroceryItem ==
    \E grocery_item_id \in GroceryItemIds :
        Request("delete_grocery_item", <<grocery_item_id>>,
                delete_grocery_item(db, grocery_item_id))

AddItemToTemplate(templates, items, quantities, cap) ==
    \E template_id \in templates, item_id \in items, quantity \in quantities :
        /\ lastrowid(db.grocery_template_items) <= cap
        /\ Request("add_item_to_template", <<template_id, item_id, quantity>>,
                   add_item_to_template(db, now, template_id, item_id, quantity))

RemoveItemFromTemplate(templates) ==
    \E template_id \in templates, item_id \in TemplateItemIds :
        Request("remove_item_from_template", <<template_id, item_id>>,
                remove_item_from_template(db, template_id, item_id))

(* An apply is taken while the rows it may add fit the bound.             *)
ApplyTemplate(templates, users) ==
    \E template_id \in templates, user_id \in users :
        /\ Cardinality(db.grocery_items)
             + Cardinality({ti \in db.grocery_template_items :
                               ti.template_id = template_id})
             <= MaxGroceryItems
        /\ Request("apply_template", <<template_id, user_id>>,
                   apply_template(db, now, template_id, user_id))

(***************************************************************************)
(* SpecCascade: items that are sold in a store, listed by a user and held *)
(* in a template, and the deletes of items and templates.                  *)
(***************************************************************************)
MaxFilledTemplates == 1
MaxCascadeRows == 2

NextCascade ==
    \/ CreateStore({"Aldi"})
    \/ CreateItem(ItemNames, {Null}, {FALSE}, {Null}, {<<1>>})
    \/ CreateTemplate({"Weekly"}, {FALSE}, {1}, MaxFilledTemplates)
    \/ AddItemToTemplate(1..MaxFilledTemplates, 1..MaxItems, {Null}, MaxCascadeRows)
    \/ CreateGroceryItem(1..MaxItems, {Null}, {Null}, {1}, MaxCascadeRows)
    \/ DeleteItem
    \/ DeleteTemplate

SpecCascade == Init /\ [][NextCascade]_vars

(***************************************************************************)
(* SpecApply: one item, created with or without a default quantity and    *)
(* with either quantity_is_int, the first template holding it with every  *)
(* kind of quantity, and apply_template of any template for either user.  *)
(***************************************************************************)
(* "9223372036854775808", 2^63 *)
TwoTo63 ==
    <<"9", "2", "2", "3", "3", "7", "2", "0", "3", "6",
      "8", "5", "4", "7", "7", "5", "8", "0", "8">>

(* None, "", "6", "abc" and 2^63 *)
TemplateQuantities ==
    {Null, Some(<<>>), Some(<<"6">>), Some(<<"a", "b", "c">>), Some(TwoTo63)}

NextApply ==
    \/ CreateItem({"Apples"}, {Null, Some(<<"2">>)}, BOOLEAN, {Null}, {<<>>})
    \/ CreateTemplate({"Weekly"}, {FALSE}, {1}, MaxFilledTemplates)
    \/ AddItemToTemplate({1}, {1}, TemplateQuantities, MaxTemplateItems)
    \/ ApplyTemplate(1..MaxFilledTemplates \cup {MissingId}, Users \cup {MissingId})

SpecApply == Init /\ [][NextApply]_vars

(***************************************************************************)
(* list_grocery_items (routers/grocery_items.py)                           *)
(***************************************************************************)
(* The filter with no user in it.                                          *)
UserFilter_any(gi, user_id) == TRUE

(* WHERE gi.user_id = ? *)
UserFilter(gi, user_id) == gi.user_id = user_id

(* The user's rows as the queries see them: with store_id the rows go     *)
(* through JOIN items, which keeps those whose item exists.                *)
UserRows(d, user_id, store_id) ==
    {gi \in d.grocery_items :
        /\ UserFilter(gi, user_id)
        /\ store_id # Null => Exists(d.items, gi.item_id)}

(* ORDER BY created_at DESC: every arrangement of the rows with the later *)
(* created_at first; rows of one created_at come in an order SQL leaves   *)
(* open.                                                                    *)
CreatedAtDesc(rows) ==
    {o \in [1..Cardinality(rows) -> rows] :
        /\ \A j, k \in 1..Cardinality(rows) : j # k => o[j] # o[k]
        /\ \A j, k \in 1..Cardinality(rows) :
               j < k => o[j].created_at >= o[k].created_at}

(* ordered is the arrangement the ORDER BY came out with.                  *)
list_grocery_items(d, user_id, store_id, ordered) ==
    LET count(gi) ==
            IF store_id = Null THEN 1
            ELSE Copies(Cardinality(
                     {j \in LeftJoinItemStores(d, Row(d.items, gi.item_id)) :
                         StoreFilter(j.store_id, Val(store_id))}), TRUE)
    IN Return(d, 200,
              Flatten([k \in 1..Len(ordered) |->
                         Repeat(GroceryItemWithDetails(d, ordered[k]),
                                count(ordered[k]))]))

ListGroceryItems(users, stores) ==
    \E user_id \in users, store_id \in stores :
        \E ordered \in CreatedAtDesc(UserRows(db, user_id, store_id)) :
            Request("list_grocery_items", <<user_id, store_id>>,
                    list_grocery_items(db, user_id, store_id, ordered))

(***************************************************************************)
(* SpecGroceryList: items sold nowhere, at the first store or at both,    *)
(* on the lists of both users, and the listing by user and store.          *)
(***************************************************************************)
NextGroceryList ==
    \/ CreateStore(StoreNames)
    \/ CreateItem(ItemNames, {Null}, {FALSE}, {Null}, {<<>>, <<1>>, <<1, 2>>})
    \/ CreateGroceryItem(1..MaxItems, {Null}, {Null}, Users, MaxGroceryItems)
    \/ ListGroceryItems(Users, {Null} \cup {Some(s) : s \in 1..MaxStores})

SpecGroceryList == Init /\ [][NextGroceryList]_vars

(***************************************************************************)
(* SpecItemStores: the stores, and items created and updated with every   *)
(* list of existing stores, the empty list and the lists that name one    *)
(* store twice among them.                                                 *)
(***************************************************************************)
StoreLists == StoreSetLists \cup {<<a, a>> : a \in 1..MaxStores}

NextItemStores ==
    \/ CreateStore(StoreNames)
    \/ CreateItem(ItemNames, {Null}, {FALSE}, {Null}, StoreLists)
    \/ UpdateItem({[NoItemUpdate EXCEPT !.store_ids = l] :
                      l \in {Null} \cup {Some(l) : l \in StoreLists}})
    \/ DeleteItem

SpecItemStores == Init /\ [][NextItemStores]_vars

(***************************************************************************)
(* Tasks (routers/tasks.py).  A due date reaches the handlers as a Python  *)
(* datetime: a day of the month, an hour and, when the client sent one, a  *)
(* UTC offset in hours.  sqlite3 binds a datetime as its isoformat text,   *)
(* and the due_date column holds that text; of the text the model keeps    *)
(* the characters that differ between two due dates of one month, in       *)
(* their order: the day, the space, the hour, the sign and the hours of    *)
(* the offset.                                                              *)
(***************************************************************************)
TaskTitles == {"Feed cat"}
TaskCategories == {"household", "pet"}

(* The characters of a stored datetime, in byte order.                     *)
AsciiOrder == <<" ", "+", "-", "0", "1", "2", "3", "4", "5", "6", "7",
                "8", "9">>
AsciiRank(c) == CHOOSE i \in 1..Len(AsciiOrder) : AsciiOrder[i] = c

TwoDigits(n) == <<PyDigits[(n \div 10) + 1], PyDigits[(n % 10) + 1]>>
TwoDigitValue(s) == DigitValue(s[1]) * 10 + DigitValue(s[2])

(* datetime.isoformat(" "), the text sqlite3 stores for a datetime *)
isoformat(dt) ==
    TwoDigits(dt.day) \o <<" ">> \o TwoDigits(dt.hour)
        \o (IF dt.utcoffset = Null THEN <<>>
            ELSE IF Val(dt.utcoffset) < 0
                 THEN <<"-">> \o TwoDigits(0 - Val(dt.utcoffset))
                 ELSE <<"+">> \o TwoDigits(Val(dt.utcoffset)))

(* The datetime the Task model reads back from the stored text.            *)
fromisoformat(s) ==
    [day |-> TwoDigitValue(SubSeq(s, 1, 2)),
     hour |-> TwoDigitValue(SubSeq(s, 4, 5)),
     utcoffset |-> IF Len(s) = 5 THEN Null
                   ELSE IF s[6] = "-"
                        THEN Some(0 - TwoDigitValue(SubSeq(s, 7, 8)))
                        ELSE Some(TwoDigitValue(SubSeq(s, 7, 8)))]

(* The hour, counted in UTC from the start of the month, at which a        *)
(* datetime with an offset falls.                                           *)
Instant(dt) == dt.day * 24 + dt.hour - Val(dt.utcoffset)

RECURSIVE TextLess(_, _)
(* a < b for two TEXT values under SQLite's BINARY collation (memcmp,      *)
(* the shorter first when one is the start of the other)                    *)
TextLess(a, b) ==
    IF b = <<>> THEN FALSE
    ELSE IF a = <<>> THEN TRUE
    ELSE IF Head(a) # Head(b) THEN AsciiRank(Head(a)) < AsciiRank(Head(b))
    ELSE TextLess(Tail(a), Tail(b))

(* tasks.completed DEFAULT 0 *)
schema_default_completed == FALSE

(* The Task model built from a row. *)
Task(row) ==
    [row EXCEPT !.due_date = IF @ = Null THEN Null
                             ELSE Some(fromisoformat(Val(@)))]

(* The column value bound for an Optional[datetime] parameter.             *)
BindDatetime(o) == IF o = Null THEN Null ELSE Some(isoformat(Val(o)))

create_task(d, t, title, category, due_date, assigned_to) ==
    IF assigned_to # Null /\ Val(assigned_to) \notin d.users
    THEN HTTPException(d, 404, <<"User", Val(assigned_to)>>)
    ELSE LET row == [id |-> lastrowid(d.tasks), title |-> title,
                     category |-> category,
                     completed |-> schema_default_completed,
                     due_date |-> BindDatetime(due_date),
                     assigned_to |-> assigned_to,
                     created_at |-> t, updated_at |-> t]
         IN Return([d EXCEPT !.tasks = @ \cup {row}], 201, Task(row))

NoTaskUpdate ==
    [title |-> Null, category |-> Null, completed |-> Null,
     due_date |-> Null, assigned_to |-> Null]

update_task(d, t, task_id, u) ==
    IF ~Exists(d.tasks, task_id)
    THEN HTTPException(d, 404, <<"Task", task_id>>)
    ELSE IF u.assigned_to # Null /\ Val(u.assigned_to) \notin d.users
    THEN HTTPException(d, 404, <<"User", Val(u.assigned_to)>>)
    ELSE LET old == Row(d.tasks, task_id)
             new == [old EXCEPT
                       !.title = IF u.title # Null THEN Val(u.title) ELSE @,
                       !.category = IF u.category # Null
                                    THEN Val(u.category) ELSE @,
                       !.completed = IF u.completed # Null
                                     THEN Val(u.completed) ELSE @,
                       !.due_date = IF u.due_date # Null
                                    THEN BindDatetime(u.due_date) ELSE @,
                       !.assigned_to = IF u.assigned_to # Null
                                       THEN u.assigned_to ELSE @,
                       !.updated_at = t]
             written == IF u # NoTaskUpdate
                        THEN (d.tasks \ {old}) \cup {new}
                        ELSE d.tasks
         IN Return([d EXCEPT !.tasks = written], 200,
                   Task(Row(written, task_id)))

delete_task(d, task_id) ==
    IF ~Exists(d.tasks, task_id)
    THEN HTTPException(d, 404, <<"Task", task_id>>)
    ELSE Return([d EXCEPT !.tasks = {k \in @ : k.id # task_id}], 204, <<>>)

(* WHERE 1=1 [AND assigned_to = ?] [AND category = ?] *)
TaskRows(d, assigned_to, category) ==
    {k \in d.tasks :
        /\ assigned_to # Null => k.assigned_to = assigned_to
        /\ category # Null => k.category = Val(category)}

(* a comes before b under ORDER BY completed, due_date NULLS LAST,         *)
(* created_at DESC: FALSE is 0 and TRUE is 1, and due_date is compared as  *)
(* the text it is stored as.                                                *)
TaskSortsBefore(a, b) ==
    IF a.completed # b.completed THEN b.completed
    ELSE IF a.due_date # b.due_date
    THEN IF a.due_date = Null THEN FALSE
         ELSE IF b.due_date = Null THEN TRUE
         ELSE TextLess(Val(a.due_date), Val(b.due_date))
    ELSE a.created_at > b.created_at

(* Every arrangement the ORDER BY can come out with; rows equal in all     *)
(* three keys come in an order SQL leaves open.                             *)
TaskOrder(rows) ==
    {o \in [1..Cardinality(rows) -> rows] :
        /\ \A j, k \in 1..Cardinality(rows) : j # k => o[j] # o[k]
        /\ \A j, k \in 1..Cardinality(rows) :
               j < k => ~TaskSortsBefore(o[k], o[j])}

(* ordered is the arrangement the ORDER BY came out with.                  *)
list_tasks(d, assigned_to, category, ordered) ==
    Return(d, 200, [k \in 1..Len(ordered) |-> Task(ordered[k])])

TaskIds == 1..MaxTasks \cup {MissingId}

(* The ids a request addresses: those of the rows there are, and one of   *)
(* no row.                                                                 *)
Addressed(rows) == {r.id : r \in rows} \cup {MissingId}

CreateTask(titles, categories, due_dates, users, cap) ==
    \E title \in titles, category \in categories, due_date \in due_dates,
       assigned_to \in users :
        /\ lastrowid(db.tasks) <= cap
        /\ Request("create_task", <<title, category, due_date, assigned_to>>,
                   create_task(db, now, title, category, due_date,
                               assigned_to))

UpdateTask(updates) ==
    \E task_id \in Addressed(db.tasks), u \in updates :
        Request("update_task", <<task_id, u>>,
                update_task(db, now, task_id, u))

DeleteTask ==
    \E task_id \in TaskIds :
        Request("delete_task", <<task_id>>, delete_task(db, task_id))

ListTasks(users, categories) ==
    \E assigned_to \in users, category \in categories :
        \E ordered \in TaskOrder(TaskRows(db, assigned_to, category)) :
            Request("list_tasks", <<assigned_to, category>>,
                    list_tasks(db, assigned_to, category, ordered))

(***************************************************************************)
(* update_grocery_item (routers/grocery_items.py) and update_provider      *)
(* (routers/providers.py)                                                   *)
(***************************************************************************)
NoGroceryItemUpdate ==
    [quantity |-> Null, int_quantity |-> Null, purchased |-> Null]

update_grocery_item(d, t, grocery_item_id, u) ==
    IF ~Exists(d.grocery_items, grocery_item_id)
    THEN HTTPException(d, 404, <<"Grocery item", grocery_item_id>>)
    ELSE IF ~BindsInt(u.int_quantity)
    THEN Unhandled(d, "OverflowError")
    ELSE LET old == Row(d.grocery_items, grocery_item_id)
             new == [old EXCEPT
                       !.quantity = IF u.quantity # Null
                                    THEN u.quantity ELSE @,
                       !.int_quantity = IF u.int_quantity # Null
                                        THEN u.int_quantity ELSE @,
                       !.purchased = IF u.purchased # Null
                                     THEN Val(u.purchased) ELSE @,
                       !.updated_at = t]
             written == IF u # NoGroceryItemUpdate
                        THEN (d.grocery_items \ {old}) \cup {new}
                        ELSE d.grocery_items
             e == [d EXCEPT !.grocery_items = written]
         IN Return(e, 200,
                   GroceryItemWithDetails(e, Row(written, grocery_item_id)))

(* The UPDATE run whether or not a field is supplied.                      *)
update_provider_stamped(d, t, provider_id, name) ==
    IF ~Exists(d.providers, provider_id)
    THEN HTTPException(d, 404, <<"Provider", provider_id>>)
    ELSE LET old == Row(d.providers, provider_id)
             new == [old EXCEPT !.name = IF name # Null THEN Val(name) ELSE @,
                                !.updated_at = t]
             written == (d.providers \ {old}) \cup {new}
         IN Return([d EXCEPT !.providers = written], 200,
                   Row(written, provider_id))

update_provider(d, t, provider_id, name) ==
    IF ~Exists(d.providers, provider_id)
    THEN HTTPException(d, 404, <<"Provider", provider_id>>)
    ELSE LET old == Row(d.providers, provider_id)
             new == [old EXCEPT !.name = Val(name), !.updated_at = t]
             written == IF name # Null
                        THEN (d.providers \ {old}) \cup {new}
                        ELSE d.providers
         IN Return([d EXCEPT !.providers = written], 200,
                   Row(written, provider_id))

UpdateGroceryItem(updates) ==
    \E grocery_item_id \in Addressed(db.grocery_items), u \in updates :
        Request("update_grocery_item", <<grocery_item_id, u>>,
                update_grocery_item(db, now, grocery_item_id, u))

UpdateProvider(names) ==
    \E provider_id \in Addressed(db.providers), name \in names :
        Request("update_provider", <<provider_id, name>>,
                update_provider(db, now, provider_id, name))

PatchAppointment(titles, providers) ==
    \E appointment_id \in Addressed(db.appointments), title \in titles,
       provider_id \in providers :
        Request("update_appointment", <<appointment_id, provider_id, title>>,
                update_appointment(db, now, appointment_id, title,
                                   provider_id))

(***************************************************************************)
(* SpecForeignKeys: every create and update that carries a reference to    *)
(* another table, with references to rows that exist and to rows that do   *)
(* not, over tables of at most MaxReferringRows rows.                       *)
(***************************************************************************)
MaxReferringRows == 1

NextForeignKeys ==
    \/ CreateStore({"Aldi"})
    \/ CreateItem({"Apples"}, {Null}, {FALSE}, {Null},
                  {<<>>, <<1>>, <<MissingId>>, <<1, MissingId>>})
    \/ UpdateItem({[NoItemUpdate EXCEPT !.store_ids = Some(l)] :
                      l \in {<<1>>, <<MissingId>>}})
    \/ CreateTemplate({"Weekly"}, {FALSE}, {1, MissingId}, MaxReferringRows)
    \/ AddItemToTemplate({1, MissingId}, {1, MissingId}, {Null},
                         MaxReferringRows)
    \/ CreateGroceryItem({1, MissingId}, {Null}, {Null}, {1, MissingId},
                         MaxReferringRows)
    \/ CreateProvider
    \/ CreateAppointment
    \/ PatchAppointment({Null}, OptProviderIds)
    \/ CreateTask(TaskTitles, {"pet"}, {Null},
                  {Null, Some(1), Some(MissingId)}, MaxReferringRows)
    \/ UpdateTask({[NoTaskUpdate EXCEPT !.assigned_to = Some(a)] :
                      a \in {2, MissingId}})

SpecForeignKeys == Init /\ [][NextForeignKeys]_vars

(***************************************************************************)
(* SpecUpdates: the seven update handlers, each with no field, one field   *)
(* and another field supplied, on a database of at most MaxUpdateRows      *)
(* rows.                                                                    *)
(***************************************************************************)
MaxUpdateRows == 2

RowCount(d) ==
    Cardinality(d.stores) + Cardinality(d.items)
        + Cardinality(d.grocery_items) + Cardinality(d.grocery_templates)
        + Cardinality(d.providers) + Cardinality(d.appointments)
        + Cardinality(d.tasks)

PatchTemplate(names, defaults) ==
    \E template_id \in Addressed(db.grocery_templates), name \in names, is_default \in defaults :
        Request("update_template", <<template_id, name, is_default>>,
                update_template(db, now, template_id, name, is_default))

NextUpdates ==
    \/ /\ RowCount(db) < MaxUpdateRows
       /\ \/ CreateStore({"Aldi"})
          \/ CreateItem({"Apples"}, {Null}, {FALSE}, {Null}, {<<>>})
          \/ CreateGroceryItem({1}, {Null}, {Null}, {1}, MaxReferringRows)
          \/ CreateTemplate({"Weekly"}, {TRUE}, Users, MaxTemplates)
          \/ CreateProvider
          \/ CreateAppointment
          \/ CreateTask(TaskTitles, {"pet"}, {Null}, {Null}, MaxTasks)
    \/ UpdateStore({Null, Some("Costco")})
    \/ UpdateItem({NoItemUpdate,
                   [NoItemUpdate EXCEPT !.section = Some("Dairy")],
                   [NoItemUpdate EXCEPT !.store_ids = Some(<<1>>)]})
    \/ UpdateGroceryItem({NoGroceryItemUpdate,
                          [NoGroceryItemUpdate EXCEPT !.purchased = Some(TRUE)],
                          [NoGroceryItemUpdate EXCEPT !.quantity = Some(<<"2">>)]})
    \/ PatchTemplate({Null, Some("Pets")}, {Null, Some(TRUE)})
    \/ UpdateProvider({Null, Some("Dr. Jones")})
    \/ PatchAppointment({Null, Some("Follow-up")}, {Null, Some(1)})
    \/ UpdateTask({NoTaskUpdate,
                   [NoTaskUpdate EXCEPT !.completed = Some(TRUE)],
                   [NoTaskUpdate EXCEPT !.title = Some("Walk dog")]})

SpecUpdates == Init /\ [][NextUpdates]_vars

(***************************************************************************)
(* SpecTimestamps: a store, an item and a user's templates; the item       *)
(* updated in a column and in its stores, the templates created as the     *)
(* default and made the default, with the clock moving on between the      *)
(* requests.                                                                *)
(***************************************************************************)
NextTimestamps ==
    \/ CreateStore({"Aldi"})
    \/ CreateItem({"Apples"}, {Null}, {FALSE}, {Null}, {<<>>})
    \/ UpdateItem({[NoItemUpdate EXCEPT !.section = Some("Dairy")],
                   [NoItemUpdate EXCEPT !.store_ids = Some(<<1>>)]})
    \/ CreateTemplate({"Weekly"}, {TRUE}, {1}, MaxUpdateRows)
    \/ PatchTemplate({Null}, {Some(TRUE)})
    \/ Tick

SpecTimestamps == Init /\ [][NextTimestamps]_vars

(***************************************************************************)
(* SpecEmptyUpdates: rows of every entity, at most MaxUpdateRows in all,   *)
(* updated with no field supplied while the clock moves on.                 *)
(***************************************************************************)
NextEmptyUpdates ==
    \/ /\ RowCount(db) < MaxUpdateRows
       /\ \/ CreateStore({"Aldi"})
          \/ CreateItem({"Apples"}, {Null}, {FALSE}, {Null}, {<<>>})
          \/ CreateGroceryItem({1}, {Null}, {Null}, {1}, MaxReferringRows)
          \/ CreateTemplate({"Weekly"}, {TRUE}, {1}, MaxReferringRows)
          \/ CreateProvider
          \/ CreateAppointment
          \/ CreateTask(TaskTitles, {"pet"}, {Null}, {Null}, MaxReferringRows)
    \/ UpdateStore({Null})
    \/ UpdateItem({NoItemUpdate})
    \/ UpdateGroceryItem({NoGroceryItemUpdate})
    \/ PatchTemplate({Null}, {Null})
    \/ UpdateProvider({Null})
    \/ PatchAppointment({Null}, {Null})
    \/ UpdateTask({NoTaskUpdate})
    \/ Tick

SpecEmptyUpdates == Init /\ [][NextEmptyUpdates]_vars

(***************************************************************************)
(* SpecTemplateItems: two templates of one user, template items added to   *)
(* either, and removals that name either template, a template that does    *)
(* not exist, and every template item id.                                   *)
(***************************************************************************)
NextTemplateItems ==
    \/ CreateItem({"Apples"}, {Null}, {FALSE}, {Null}, {<<>>})
    \/ CreateTemplate({"Weekly"}, {FALSE}, {1}, MaxUpdateRows)
    \/ AddItemToTemplate(1..MaxUpdateRows, {1}, {Null}, MaxTemplateItems)
    \/ RemoveItemFromTemplate(1..MaxUpdateRows \cup {MissingId})

SpecTemplateItems == Init /\ [][NextTemplateItems]_vars

(***************************************************************************)
(* SpecTasks: tasks of two categories, assigned or not, with no due date   *)
(* or one of two due dates sent with different UTC offsets, completed or   *)
(* not, created at different times, and listed with every combination of   *)
(* the two filters.                                                         *)
(***************************************************************************)
DueDates ==
    {[day |-> 1, hour |-> 23, utcoffset |-> Some(0)],
     [day |-> 2, hour |-> 0, utcoffset |-> Some(5)]}

NextTasks ==
    \/ CreateTask(TaskTitles, TaskCategories,
                  {Null} \cup {Some(dt) : dt \in DueDates}, {Null, Some(1)},
                  MaxTasks)
    \/ UpdateTask({[NoTaskUpdate EXCEPT !.completed = Some(TRUE)]})
    \/ ListTasks({Null, Some(1)}, {Null, Some("pet")})
    \/ Tick

SpecTasks == Init /\ [][NextTasks]_vars

(***************************************************************************)
(* SpecRollback: requests that fail before their first write and requests  *)
(* that fail after it: items created and updated with a name in use, with  *)
(* a store that does not exist and with a store named twice, and a         *)
(* template applied whose second quantity does not fit an INTEGER.          *)
(***************************************************************************)
NextRollback ==
    \/ CreateStore({"Aldi"})
    \/ CreateItem(ItemNames, {Null}, {TRUE}, {Null},
                  {<<>>, <<MissingId>>, <<1, 1>>})
    \/ UpdateItem({[NoItemUpdate EXCEPT !.name = Some("Butter"),
                                        !.section = Some("Dairy"),
                                        !.store_ids = store_ids] :
                      store_ids \in {Null, Some(<<1, MissingId>>)}})
    \/ CreateTemplate({"Weekly"}, {FALSE}, {1}, MaxFilledTemplates)
    \/ AddItemToTemplate({1}, {1}, {Some(<<"6">>), Some(TwoTo63)},
                         MaxTemplateItems)
    \/ ApplyTemplate({1, MissingId}, {1})

SpecRollback == Init /\ [][NextRollback]_vars

(***************************************************************************)
(* SpecOptionalFields: tasks created with and without a due date and an    *)
(* assignee, appointments created with and without a provider, at most     *)
(* MaxUpdateRows rows in all, and updates that supply the optional fields  *)
(* or leave them out.                                                       *)
(***************************************************************************)
NextOptionalFields ==
    \/ /\ RowCount(db) < MaxUpdateRows
       /\ \/ CreateProvider
          \/ CreateAppointment
          \/ CreateTask(TaskTitles, {"pet"},
                        {Null, Some([day |-> 1, hour |-> 23,
                                     utcoffset |-> Some(0)])},
                        {Null, Some(1)}, MaxTasks)
    \/ PatchAppointment({Null, Some("Follow-up")}, {Null, Some(1)})
    \/ UpdateTask({NoTaskUpdate,
                   [NoTaskUpdate EXCEPT !.assigned_to = Some(2)],
                   [NoTaskUpdate EXCEPT
                       !.due_date = Some([day |-> 2, hour |-> 0,
                                          utcoffset |-> Some(5)])]})
    \/ DeleteAppointment
    \/ DeleteTask

SpecOptionalFields == Init /\ [][NextOptionalFields]_vars

(***************************************************************************)
(* SpecIntegrity: every operation that writes or deletes a reference or    *)
(* the row it points to, over databases of at most MaxIntegrityRows rows.  *)
(***************************************************************************)
MaxIntegrityRows == 3

NextIntegrity ==
    \/ /\ RowCount(db) < MaxIntegrityRows
       /\ \/ CreateStore({"Aldi"})
          \/ CreateItem({"Apples"}, {Null}, {FALSE}, {Null}, {<<>>, <<1>>})
          \/ CreateTemplate({"Weekly"}, {FALSE}, {1}, MaxFilledTemplates)
          \/ CreateGroceryItem({1, MissingId}, {Null}, {Null}, {1},
                               MaxReferringRows)
          \/ CreateProvider
          \/ CreateAppointment
    \/ AddItemToTemplate({1}, {1, MissingId}, {Null}, MaxReferringRows)
    \/ ApplyTemplate({1}, {1})
    \/ UpdateItem({[NoItemUpdate EXCEPT !.store_ids = Some(l)] :
                      l \in {<<>>, <<1>>}})
    \/ PatchAppointment({Null}, {Null, Some(1), Some(MissingId)})
    \/ DeleteStore
    \/ DeleteItem
    \/ DeleteTemplate
    \/ DeleteProvider

SpecIntegrity == Init /\ [][NextIntegrity]_vars

(***************************************************************************)
(* Concurrent requests.  Each request runs on its own connection and      *)
(* executes its statements one at a time; between two statements of one   *)
(* request any statement of another may run.  sqlite3.connect is called   *)
(* with its defaults (database.py:25), so a connection's SELECTs before   *)
(* its first INSERT / UPDATE / DELETE read the committed database, the    *)
(* first such statement opens a transaction and takes the database's one  *)
(* write lock, and from there on the connection works on its own state    *)
(* (work) until conn.commit() publishes it or conn.rollback() drops it.   *)
(* A statement that needs the lock while another connection holds it      *)
(* waits, or gives up after the busy timeout with OperationalError.       *)
(* Failures of commit itself (I/O, a full disk) are outside the model.    *)
(***************************************************************************)
NoLocals ==
    [id |-> 0, i |-> 0, user_id |-> 0, rows |-> <<>>, item_row |-> Null,
     items_added |-> 0]

(* What the next statement of a handler does: whether it writes (dml),    *)
(* whether it ends the body by raising, where the body goes on (pc), the  *)
(* handler's local variables afterwards, the database as the statement    *)
(* leaves it (after, for a write), and the status and body once the body  *)
(* has ended ("exit").                                                     *)
Select(pc, loc) ==
    [dml |-> FALSE, raised |-> FALSE, pc |-> pc, loc |-> loc, after |-> Null,
     status |-> 0, body |-> <<>>]

Write(pc, loc, after) ==
    [dml |-> TRUE, raised |-> FALSE, pc |-> pc, loc |-> loc,
     after |-> Some(after), status |-> 0, body |-> <<>>]

(* A SELECT whose result makes the handler raise.                          *)
Raise(status, detail) ==
    [dml |-> FALSE, raised |-> TRUE, pc |-> "exit", loc |-> NoLocals,
     after |-> Null, status |-> status, body |-> detail]

(* A write the database refuses: sqlite3.IntegrityError, caught nowhere.   *)
Rejected(what) ==
    [dml |-> TRUE, raised |-> TRUE, pc |-> "exit", loc |-> NoLocals,
     after |-> Null, status |-> 500, body |-> <<what>>]

(* The handler's last statement and its return.                            *)
ReturnAfterSelect(status, body) ==
    [dml |-> FALSE, raised |-> FALSE, pc |-> "exit", loc |-> NoLocals,
     after |-> Null, status |-> status, body |-> body]

ReturnAfterWrite(after, status, body) ==
    [dml |-> TRUE, raised |-> FALSE, pc |-> "exit", loc |-> NoLocals,
     after |-> Some(after), status |-> status, body |-> body]

(* The declarative constraints of the schema that a write can run into    *)
(* when another request committed between this request's validation and   *)
(* its write: names UNIQUE in stores and items, and the foreign keys,     *)
(* which database.py:28 switches on for every connection.                 *)
schema_unique_name_absent(rows, name, own_id) == TRUE

schema_unique_name(rows, name, own_id) ==
    ~\E r \in rows : r.name = name /\ r.id # own_id

schema_foreign_key_absent(rows, id) == TRUE

schema_foreign_key(rows, id) == Exists(rows, id)

(* What the schema does with the item_stores rows of a store that is      *)
(* deleted is not told by the sources: the rows go with it (CASCADE) or   *)
(* the DELETE is refused (RESTRICT, NO ACTION).                            *)
StoreDeleteActions == {"cascade", "restrict"}

(* for store_id in store_ids: SELECT id FROM stores WHERE id = ?, one     *)
(* turn of the loop; after the last id the body goes on at then.          *)
validate_store_statement(store_ids, loc, d, then) ==
    IF ~Exists(d.stores, store_ids[loc.i])
    THEN Raise(404, <<"Store", store_ids[loc.i]>>)
    ELSE Select(IF loc.i = Len(store_ids) THEN then ELSE "check_store",
                [loc EXCEPT !.i = @ + 1])

(* _set_item_stores, statement by statement: the DELETE of the item's     *)
(* pairs, then one INSERT per store id.                                    *)
_set_item_stores_statement(pc, item_id, store_ids, loc, d) ==
    IF pc = "set_delete"
    THEN Write(IF store_ids = <<>> THEN "select" ELSE "set_insert",
               [loc EXCEPT !.i = 1],
               [d EXCEPT !.item_stores = {p \in @ : p.item_id # item_id}])
    ELSE LET pair == [item_id |-> item_id, store_id |-> store_ids[loc.i]]
             row == [item_id |-> item_id, store_id |-> store_ids[loc.i],
                     copy |-> 1 + Cardinality({p \in d.item_stores :
                                                  SamePair(p, pair)})]
         IN IF /\ schema_item_stores_key(d.item_stores, pair)
               /\ schema_foreign_key(d.items, pair.item_id)
               /\ schema_foreign_key(d.stores, pair.store_id)
            THEN Write(IF loc.i = Len(store_ids) THEN "select" ELSE "set_insert",
                       [loc EXCEPT !.i = @ + 1],
                       [d EXCEPT !.item_stores = @ \cup {row}])
            ELSE Rejected("IntegrityError")

create_store_statement(pc, args, loc, d, t) ==
    LET name == args[1]
    IN CASE pc = "check_name" ->
              IF NameTaken(d.stores, name, 0)
              THEN Raise(409, <<"Store", name>>)
              ELSE Select("insert", loc)
         [] pc = "insert" ->
              IF schema_unique_name(d.stores, name, 0)
              THEN LET row == [id |-> lastrowid(d.stores), name |-> name,
                               created_at |-> t, updated_at |-> t]
                   IN Write("select", [loc EXCEPT !.id = row.id],
                            [d EXCEPT !.stores = @ \cup {row}])
              ELSE Rejected("IntegrityError")
         [] pc = "select" ->
              ReturnAfterSelect(201, Row(d.stores, loc.id))

delete_store_statement(pc, args, loc, d, fk) ==
    LET store_id == args[1]
    IN CASE pc = "exists" ->
              IF ~Exists(d.stores, store_id)
              THEN Raise(404, <<"Store", store_id>>)
              ELSE Select("count", loc)
         [] pc = "count" ->
              IF StoreDependents(d, store_id) > 0
              THEN Raise(409, <<"items reference this store",
                                StoreDependents(d, store_id)>>)
              ELSE Select("delete", loc)
         [] pc = "delete" ->
              IF fk = "restrict" /\ \E p \in d.item_stores : p.store_id = store_id
              THEN Rejected("IntegrityError")
              ELSE ReturnAfterWrite(
                       [d EXCEPT !.stores = {s \in @ : s.id # store_id},
                                 !.item_stores = {p \in @ : p.store_id # store_id}],
                       204, <<>>)

create_item_statement(pc, args, loc, d, t) ==
    LET name == args[1]
        store_ids == args[5]
    IN CASE pc = "check_name" ->
              IF NameTaken(d.items, name, 0)
              THEN Raise(409, <<"Item", name>>)
              ELSE Select(IF store_ids = <<>> THEN "insert" ELSE "check_store",
                          [loc EXCEPT !.i = 1])
         [] pc = "check_store" ->
              validate_store_statement(store_ids, loc, d, "insert")
         [] pc = "insert" ->
              IF schema_unique_name(d.items, name, 0)
              THEN LET row == [id |-> lastrowid(d.items), name |-> name,
                               default_quantity |-> args[2],
                               quantity_is_int |-> args[3], section |-> args[4],
                               created_at |-> t, updated_at |-> t]
                   IN Write("set_delete", [loc EXCEPT !.id = row.id],
                            [d EXCEPT !.items = @ \cup {row}])
              ELSE Rejected("IntegrityError")
         [] pc \in {"set_delete", "set_insert"} ->
              _set_item_stores_statement(pc, loc.id, store_ids, loc, d)
         [] pc = "select" ->
              ReturnAfterSelect(201, ItemWithStores(d, Row(d.items, loc.id)))

update_item_statement(pc, args, loc, d, t) ==
    LET item_id == args[1]
        u == args[2]
        fields == u.name # Null \/ u.default_quantity # Null
                    \/ u.quantity_is_int # Null \/ u.section # Null
        stores == IF u.store_ids = Null THEN "select"
                  ELSE IF Val(u.store_ids) = <<>> THEN "set_delete"
                  ELSE "check_store"
    IN CASE pc = "exists" ->
              IF ~Exists(d.items, item_id)
              THEN Raise(404, <<"Item", item_id>>)
              ELSE Select(IF u.name # Null THEN "check_name"
                          ELSE IF fields THEN "update" ELSE stores,
                          [loc EXCEPT !.i = 1])
         [] pc = "check_name" ->
              IF NameTaken(d.items, Val(u.name), item_id)
              THEN Raise(409, <<"Item", Val(u.name)>>)
              ELSE Select("update", loc)
         [] pc = "update" ->
              IF ~Exists(d.items, item_id)
              THEN Write(stores, loc, d)
              ELSE IF u.name # Null
                      /\ ~schema_unique_name(d.items, Val(u.name), item_id)
              THEN Rejected("IntegrityError")
              ELSE LET old == Row(d.items, item_id)
                       new == [old EXCEPT
                                 !.name = IF u.name # Null THEN Val(u.name) ELSE @,
                                 !.default_quantity =
                                     IF u.default_quantity # Null
                                     THEN u.default_quantity ELSE @,
                                 !.quantity_is_int =
                                     IF u.quantity_is_int # Null
                                     THEN Val(u.quantity_is_int) ELSE @,
                                 !.section = IF u.section # Null
                                             THEN u.section ELSE @,
                                 !.updated_at = t]
                   IN Write(stores, loc,
                            [d EXCEPT !.items = (@ \ {old}) \cup {new}])
         [] pc = "check_store" ->
              validate_store_statement(Val(u.store_ids), loc, d, "set_delete")
         [] pc \in {"set_delete", "set_insert"} ->
              _set_item_stores_statement(pc, item_id, Val(u.store_ids), loc, d)
         [] pc = "select" ->
              IF ~Exists(d.items, item_id)
              THEN Raise(500, <<"TypeError">>)
              ELSE ReturnAfterSelect(200,
                       ItemWithStores(d, Row(d.items, item_id)))

delete_item_statement(pc, args, loc, d) ==
    LET item_id == args[1]
    IN CASE pc = "exists" ->
              IF ~Exists(d.items, item_id)
              THEN Raise(404, <<"Item", item_id>>)
              ELSE Select("delete", loc)
         [] pc = "delete" ->
              ReturnAfterWrite(
                  schema_cascade_item(
                      [d EXCEPT !.items = {i \in @ : i.id # item_id}], item_id),
                  204, <<>>)

create_template_statement(pc, args, loc, d, t) ==
    LET name == args[1]
        is_default == args[2]
        user_id == args[3]
    IN CASE pc = "check_user" ->
              IF user_id \notin d.users
              THEN Raise(404, <<"User", user_id>>)
              ELSE Select(IF is_default THEN "clear" ELSE "insert", loc)
         [] pc = "clear" ->
              Write("insert", loc,
                    [d EXCEPT !.grocery_templates = ClearDefaults(@, user_id, 0)])
         [] pc = "insert" ->
              LET row == [id |-> lastrowid(d.grocery_templates), name |-> name,
                          is_default |-> is_default, user_id |-> user_id,
                          created_at |-> t, updated_at |-> t]
              IN Write("select", [loc EXCEPT !.id = row.id],
                       [d EXCEPT !.grocery_templates = @ \cup {row}])
         [] pc = "select" ->
              ReturnAfterSelect(201, Row(d.grocery_templates, loc.id))

update_template_statement(pc, args, loc, d, t) ==
    LET template_id == args[1]
        name == args[2]
        is_default == args[3]
    IN CASE pc = "select_user" ->
              IF ~Exists(d.grocery_templates, template_id)
              THEN Raise(404, <<"Template", template_id>>)
              ELSE Select(IF is_default = Some(TRUE) THEN "clear"
                          ELSE IF name # Null \/ is_default # Null THEN "update"
                          ELSE "select",
                          [loc EXCEPT !.user_id =
                              Row(d.grocery_templates, template_id).user_id])
         [] pc = "clear" ->
              Write("update", loc,
                    [d EXCEPT !.grocery_templates =
                        ClearDefaults(@, loc.user_id, template_id)])
         [] pc = "update" ->
              IF ~Exists(d.grocery_templates, template_id)
              THEN Write("select", loc, d)
              ELSE LET old == Row(d.grocery_templates, template_id)
                       new == [old EXCEPT
                                 !.name = IF name # Null THEN Val(name) ELSE @,
                                 !.is_default = IF is_default # Null
                                                THEN Val(is_default) ELSE @,
                                 !.updated_at = t]
                   IN Write("select", loc,
                            [d EXCEPT !.grocery_templates =
                                (@ \ {old}) \cup {new}])
         [] pc = "select" ->
              IF ~Exists(d.grocery_templates, template_id)
              THEN Raise(500, <<"TypeError">>)
              ELSE ReturnAfterSelect(200, Row(d.grocery_templates, template_id))

(* The template item whose item is gone left out, and the loop going on.   *)
item_row_none_skipped(loc, template_id, user_id) ==
    IF Tail(loc.rows) = <<>>
    THEN ReturnAfterSelect(201, [template_id |-> template_id,
                                 user_id |-> user_id,
                                 items_added |-> loc.items_added])
    ELSE Select("item", [loc EXCEPT !.rows = Tail(@)])

(* item_row = cursor.fetchone() is None when the item is gone, and        *)
(* item_row['quantity_is_int'] raises TypeError.                           *)
item_row_none(loc, template_id, user_id) == Raise(500, <<"TypeError">>)

apply_template_statement(pc, args, loc, d, t) ==
    LET template_id == args[1]
        user_id == args[2]
    IN CASE pc = "check_template" ->
              IF ~Exists(d.grocery_templates, template_id)
              THEN Raise(404, <<"Template", template_id>>)
              ELSE Select("check_user", loc)
         [] pc = "check_user" ->
              IF user_id \notin d.users
              THEN Raise(404, <<"User", user_id>>)
              ELSE Select("load", loc)
         [] pc = "load" ->
              LET template_items ==
                      OrderById({ti \in d.grocery_template_items :
                                    ti.template_id = template_id})
              IN IF template_items = <<>>
                 THEN ReturnAfterSelect(201, [template_id |-> template_id,
                                              user_id |-> user_id,
                                              items_added |-> 0])
                 ELSE Select("item", [loc EXCEPT !.rows = template_items])
         [] pc = "item" ->
              IF ~Exists(d.items, Head(loc.rows).item_id)
              THEN item_row_none(loc, template_id, user_id)
              ELSE Select("insert",
                          [loc EXCEPT !.item_row =
                              Some(Row(d.items, Head(loc.rows).item_id))])
         [] pc = "insert" ->
              LET ti_row == Head(loc.rows)
                  item_row == Val(loc.item_row)
                  final == final_quantity(ti_row.quantity,
                                          item_row.default_quantity)
                  parsed == int_quantity(item_row.quantity_is_int, final)
                  row == [id |-> lastrowid(d.grocery_items),
                          item_id |-> ti_row.item_id, quantity |-> final,
                          int_quantity |-> parsed, purchased |-> FALSE,
                          user_id |-> user_id, created_at |-> t,
                          updated_at |-> t]
                  e == [d EXCEPT !.grocery_items = @ \cup {row}]
              IN IF ~BindsInt(parsed)
                 THEN Raise(500, <<"OverflowError">>)
                 ELSE IF ~schema_foreign_key(d.items, ti_row.item_id)
                 THEN Rejected("IntegrityError")
                 ELSE IF Tail(loc.rows) = <<>>
                 THEN ReturnAfterWrite(e, 201,
                          [template_id |-> template_id, user_id |-> user_id,
                           items_added |-> loc.items_added + 1])
                 ELSE Write("item", [loc EXCEPT !.rows = Tail(@),
                                                !.items_added = @ + 1], e)

(* The statement a request is at, by its handler.                          *)
FirstStatement(op) ==
    CASE op \in {"create_store", "create_item"} -> "check_name"
      [] op \in {"delete_store", "update_item", "delete_item"} -> "exists"
      [] op = "create_template" -> "check_user"
      [] op = "update_template" -> "select_user"
      [] op = "apply_template" -> "check_template"

NextStatement(op, pc, args, loc, d, t, fk) ==
    CASE op = "create_store" -> create_store_statement(pc, args, loc, d, t)
      [] op = "delete_store" -> delete_store_statement(pc, args, loc, d, fk)
      [] op = "create_item" -> create_item_statement(pc, args, loc, d, t)
      [] op = "update_item" -> update_item_statement(pc, args, loc, d, t)
      [] op = "delete_item" -> delete_item_statement(pc, args, loc, d)
      [] op = "create_template" -> create_template_statement(pc, args, loc, d, t)
      [] op = "update_template" -> update_template_statement(pc, args, loc, d, t)
      [] op = "apply_template" -> apply_template_statement(pc, args, loc, d, t)

(* What a statement of connection c reads: its own transaction's state    *)
(* once it has written, the committed database before.                     *)
View(c) == IF conns[c].work # Null THEN Val(conns[c].work) ELSE db

(* Another connection holds the write lock.                                *)
Locked(c) == \E o \in Conns \ {c} : conns[o].work # Null

InBody(c) == conns[c].pc \notin {"idle", "exit", "close", "closed"}

(* Every write published as it is executed (isolation_level = None).      *)
sqlite_write_autocommit(committed, after) ==
    [db |-> after, work |-> Null]

(* A write of a connection: kept in the connection's transaction, the     *)
(* committed database as it was.                                           *)
sqlite_write(committed, after) ==
    [db |-> committed, work |-> Some(after)]

AllIdle == \A c \in Conns : conns[c].pc = "idle"

(* A request arrives: get_db() opens its connection and the body starts.   *)
(* Which of the connections it gets is immaterial; the first free one.     *)
Begin(op, args) ==
    \E n \in 1..Len(ConnOrder) :
        /\ conns[ConnOrder[n]].pc = "idle"
        /\ \A m \in 1..(n - 1) : conns[ConnOrder[m]].pc # "idle"
        /\ conns' = [conns EXCEPT ![ConnOrder[n]] =
                       [NoConn EXCEPT !.pc = FirstStatement(op), !.op = op,
                                      !.args = args, !.loc = NoLocals]]
        /\ UNCHANGED <<db, resp, now>>

(* The body's next statement.  A write runs when no other connection      *)
(* holds the lock.                                                         *)
Execute(c) ==
    /\ InBody(c)
    /\ \E fk \in StoreDeleteActions :
          LET k == conns[c]
              s == NextStatement(k.op, k.pc, k.args, k.loc, View(c), now, fk)
              w == IF s.dml /\ ~s.raised
                   THEN sqlite_write(db, Val(s.after))
                   ELSE [db |-> db, work |-> k.work]
          IN /\ s.dml => ~Locked(c)
             /\ db' = w.db
             /\ conns' = [conns EXCEPT ![c] =
                            [k EXCEPT !.pc = s.pc, !.loc = s.loc,
                                      !.work = w.work, !.raised = s.raised,
                                      !.status = s.status, !.body = s.body,
                                      !.log = Append(@, "execute")]]
    /\ UNCHANGED <<resp, now>>

(* A write that waited for the lock longer than the busy timeout:         *)
(* sqlite3.OperationalError (database is locked), caught nowhere.          *)
Timeout(c) ==
    /\ InBody(c)
    /\ Locked(c)
    /\ \E fk \in StoreDeleteActions :
          NextStatement(conns[c].op, conns[c].pc, conns[c].args, conns[c].loc,
                        View(c), now, fk).dml
    /\ conns' = [conns EXCEPT ![c] =
                   [@ EXCEPT !.pc = "exit", !.loc = NoLocals, !.raised = TRUE,
                             !.status = 500, !.body = <<"OperationalError">>,
                             !.log = Append(@, "execute")]]
    /\ UNCHANGED <<db, resp, now>>

(* The except clause left out: conn.commit() whatever the body did.        *)
get_db_exit_commit(raised) == "commit"

(* get_db after the yield: conn.commit() when the body ended normally,    *)
(* conn.rollback() and re-raise when it raised.                            *)
get_db_exit(raised) == IF raised THEN "rollback" ELSE "commit"

Exit(c) ==
    /\ conns[c].pc = "exit"
    /\ db' = IF get_db_exit(conns[c].raised) = "commit" /\ conns[c].work # Null
             THEN Val(conns[c].work)
             ELSE db
    /\ conns' = [conns EXCEPT ![c] =
                   [@ EXCEPT !.pc = "close", !.work = Null,
                             !.log = Append(@, get_db_exit(conns[c].raised))]]
    /\ UNCHANGED <<resp, now>>

(* finally: conn.close(); the response, or the re-raised exception, goes  *)
(* to the client after it.                                                 *)
Close(c) ==
    /\ conns[c].pc = "close"
    /\ conns' = [conns EXCEPT ![c] =
                   [@ EXCEPT !.pc = "closed", !.log = Append(@, "close")]]
    /\ resp' = [op |-> conns[c].op, args |-> conns[c].args,
                status |-> conns[c].status, body |-> conns[c].body]
    /\ UNCHANGED <<db, now>>

(* Requests that arrive while others run.                                  *)
Concurrently(requests) == \E r \in requests : Begin(r[1], r[2])

(***************************************************************************)
(* SpecAtomic: an item sold in store 1 and a user's templates, set up by  *)
(* requests one after the other; then two requests at a time that replace *)
(* the item's stores or make a template the default.                       *)
(***************************************************************************)
AtomicRequests ==
    {<<"update_item", <<1, [NoItemUpdate EXCEPT !.store_ids = Some(l)]>>>> :
        l \in {<<2>>, <<1, 2>>}}
      \cup {<<"update_template", <<template_id, Null, Some(TRUE)>>>> :
               template_id \in 1..MaxFilledTemplates + 1}
      \cup {<<"create_template", <<"Pets", TRUE, 1>>>>}

NextAtomic ==
    \/ /\ AllIdle
       /\ \/ CreateStore(StoreNames)
          \/ CreateItem({"Apples"}, {Null}, {FALSE}, {Null}, {<<1>>})
          \/ CreateTemplate({"Weekly"}, {FALSE}, {1}, MaxFilledTemplates + 1)
    \/ /\ \A name \in StoreNames : NameTaken(db.stores, name, 0)
       /\ Concurrently(AtomicRequests)
    \/ \E c \in Conns : Execute(c)
    \/ \E c \in Conns : Timeout(c)
    \/ \E c \in Conns : Exit(c)
    \/ \E c \in Conns : Close(c)

SpecAtomic == Init /\ [][NextAtomic]_vars

(***************************************************************************)
(* SpecVanish: a template holding the items, set up by requests one after *)
(* the other; then the template applied while items are deleted.           *)
(***************************************************************************)
VanishRequests ==
    {<<"apply_template", <<1, 1>>>>}
      \cup {<<"delete_item", <<item_id>>>> : item_id \in 1..MaxItems}

NextVanish ==
    \/ /\ AllIdle
       /\ \/ CreateItem(ItemNames, {Null}, {FALSE}, {Null}, {<<>>})
          \/ CreateTemplate({"Weekly"}, {FALSE}, {1}, MaxFilledTemplates)
          \/ AddItemToTemplate({1}, 1..MaxItems, {Null}, MaxTemplateItems)
    \/ /\ db.grocery_template_items # {}
       /\ Concurrently(VanishRequests)
    \/ \E c \in Conns : Execute(c)
    \/ \E c \in Conns : Timeout(c)
    \/ \E c \in Conns : Exit(c)
    \/ \E c \in Conns : Close(c)

SpecVanish == Init /\ [][NextVanish]_vars

(***************************************************************************)
(* SpecScope: a store and an item, set up by requests one after the       *)
(* other; then two requests at a time whose bodies return, raise before   *)
(* any write, or raise after a write.  Every thread that runs a handler   *)
(* keeps running (weak fairness on the steps of each connection).         *)
(***************************************************************************)
ScopeRequests ==
    {<<"create_store", <<name>>>> : name \in StoreNames}
      \cup {<<"update_item",
              <<1, [NoItemUpdate EXCEPT !.name = Some("Butter"),
                                        !.store_ids = Some(<<MissingId>>)]>>>>,
            <<"delete_store", <<1>>>>}

NextScope ==
    \/ /\ AllIdle
       /\ \/ CreateStore({"Aldi"})
          \/ CreateItem({"Apples"}, {Null}, {FALSE}, {Null}, {<<>>, <<1>>})
    \/ /\ db.items # {}
       /\ Concurrently(ScopeRequests)
    \/ \E c \in Conns : Execute(c)
    \/ \E c \in Conns : Timeout(c)
    \/ \E c \in Conns : Exit(c)
    \/ \E c \in Conns : Close(c)

SpecScope ==
    /\ Init
    /\ [][NextScope]_vars
    /\ \A c \in Conns :
          WF_vars(Execute(c)) /\ WF_vars(Exit(c)) /\ WF_vars(Close(c))

(***************************************************************************)
(* SpecRace: stores and items created by two requests at a time.           *)
(***************************************************************************)
RaceRequests ==
    {<<"create_store", <<name>>>> : name \in StoreNames}
      \cup {<<"create_item", <<name, Null, FALSE, Null, <<>>>>>> :
               name \in {"Apples"}}

NextRace ==
    \/ /\ AllIdle
       /\ CreateStore({"Aldi"})
    \/ Concurrently(RaceRequests)
    \/ \E c \in Conns : Execute(c)
    \/ \E c \in Conns : Timeout(c)
    \/ \E c \in Conns : Exit(c)
    \/ \E c \in Conns : Close(c)

SpecRace == Init /\ [][NextRace]_vars

(***************************************************************************)
(* SpecDeleteRace: a store and an item, set up by requests one after the  *)
(* other; then the store deleted while items are given it as their store. *)
(***************************************************************************)
DeleteRaceRequests ==
    {<<"delete_store", <<1>>>>,
     <<"create_item", <<"Butter", Null, FALSE, Null, <<1>>>>>>,
     <<"update_item", <<1, [NoItemUpdate EXCEPT !.store_ids = Some(<<1>>)]>>>>}

NextDeleteRace ==
    \/ /\ AllIdle
       /\ \/ CreateStore({"Aldi"})
          \/ CreateItem({"Apples"}, {Null}, {FALSE}, {Null}, {<<>>})
    \/ /\ db.stores # {}
       /\ Concurrently(DeleteRaceRequests)
    \/ \E c \in Conns : Execute(c)
    \/ \E c \in Conns : Timeout(c)
    \/ \E c \in Conns : Exit(c)
    \/ \E c \in Conns : Close(c)

SpecDeleteRace == Init /\ [][NextDeleteRace]_vars

(***************************************************************************)
(* C1: in every reachable state, whatever create_template,                *)
(* update_template and delete_template requests were made and whether     *)
(* they succeeded or failed, each user owns at most one template with     *)
(* is_default = true.                                                      *)
(***************************************************************************)
C1_AtMostOneDefaultPerUser ==
    \A u \in Users :
        Cardinality({r \in db.grocery_templates :
                        r.user_id = u /\ r.is_default}) <= 1

(* A request made a template the default of a user who owns others.        *)
C1_Witness ==
    /\ resp.op = "update_template"
    /\ resp.status = 200
    /\ resp.args[3] = Some(TRUE)
    /\ Cardinality({r \in db.grocery_templates :
                        r.user_id = resp.body.user_id}) >= 2
    /\ \E r \in db.grocery_templates : r.user_id # resp.body.user_id /\ r.is_default

(* The last request was a successful create_template or update_template   *)
(* with is_default = true.                                                 *)
SetDefault(r) ==
    \/ r.op = "create_template" /\ r.status = 201 /\ r.args[2]
    \/ r.op = "update_template" /\ r.status = 200 /\ r.args[3] = Some(TRUE)

(***************************************************************************)
(* C2: after a successful create_template or update_template with         *)
(* is_default = true on template T of user U, T is the only template of U *)
(* with is_default = true, every template of U that was the default       *)
(* before is still there and reads is_default = false, and the templates  *)
(* of every other user are as they were.                                   *)
(***************************************************************************)
C2_SetDefaultIsExclusive ==
    [][SetDefault(resp') =>
        LET T == resp'.body.id
            U == resp'.body.user_id
        IN /\ {r.id : r \in {x \in db'.grocery_templates :
                                  x.user_id = U /\ x.is_default}} = {T}
           /\ \A r \in db.grocery_templates :
                  (r.user_id = U /\ r.is_default /\ r.id # T) =>
                      [r EXCEPT !.is_default = FALSE] \in db'.grocery_templates
           /\ {r \in db'.grocery_templates : r.user_id # U}
                = {r \in db.grocery_templates : r.user_id # U}
    ]_vars

(* A set-default request has been answered for a user with another         *)
(* template, while the other user holds a default of their own.            *)
C2_Witness ==
    /\ SetDefault(resp)
    /\ \E r \in db.grocery_templates :
          r.user_id = resp.body.user_id /\ r.id # resp.body.id
    /\ \E r \in db.grocery_templates :
          r.user_id # resp.body.user_id /\ r.is_default

UniqueNames(rows) == \A r, q \in rows : r.name = q.name => r.id = q.id

(* What C3 says of one request, from the store before it (d), the store   *)
(* after it (e) and the response r.                                        *)
NameConflictRule(d, e, r) ==
    /\ (r.op = "create_store" /\ \E s \in d.stores : s.name = r.args[1])
          => r.status = 409 /\ e = d
    /\ (r.op = "create_item" /\ \E i \in d.items : i.name = r.args[1])
          => r.status = 409 /\ e = d
    /\ (r.op = "update_store" /\ Exists(d.stores, r.args[1]) /\ r.args[2] # Null)
          => IF \E s \in d.stores : s.name = Val(r.args[2]) /\ s.id # r.args[1]
             THEN r.status = 409 /\ e = d
             ELSE r.status # 409
    /\ (r.op = "update_item" /\ Exists(d.items, r.args[1]) /\ r.args[2].name # Null)
          => IF \E i \in d.items : i.name = Val(r.args[2].name) /\ i.id # r.args[1]
             THEN r.status = 409 /\ e = d
             ELSE r.status # 409

(***************************************************************************)
(* C3: in every reachable state no two stores share a name and no two     *)
(* items share a name; create_store / create_item with a name in use, and *)
(* update_store / update_item renaming an existing row to a name another  *)
(* row holds, answer 409 and leave the store as it was; renaming a row to *)
(* its own name (or to a free one) is not answered 409.                    *)
(***************************************************************************)
C3_NamesStayUnique ==
    /\ [](UniqueNames(db.stores) /\ UniqueNames(db.items))
    /\ [][NameConflictRule(db, db', resp')]_vars

(* An update_item that renamed nothing because the other item holds the    *)
(* name, with two stores under their two names beside it.                  *)
C3_Witness ==
    /\ resp.op = "update_item"
    /\ resp.status = 409
    /\ Cardinality(db.items) = 2
    /\ Cardinality(db.stores) = 2

(***************************************************************************)
(* C9: list_items with store_id = X answers 200 and returns every item    *)
(* associated with store X and every item associated with no store,       *)
(* returns no item associated only with other stores, and returns each    *)
(* item at most once; with a section filter as well, it returns those of  *)
(* these items that are of that section and no other item.                 *)
(***************************************************************************)
C9_ListItemsByStore ==
    (resp.op = "list_items" /\ resp.args[1] # Null) =>
        LET X == Val(resp.args[1])
            section == resp.args[2]
            body == resp.body
            stores_of(i) == {p.store_id : p \in {q \in db.item_stores : q.item_id = i.id}}
            in_section(i) == section = Null \/ i.section = section
        IN /\ resp.status = 200
           /\ \A i \in db.items :
                 (in_section(i) /\ (X \in stores_of(i) \/ stores_of(i) = {}))
                     => \E k \in 1..Len(body) : body[k].id = i.id
           /\ \A k \in 1..Len(body) :
                 /\ Exists(db.items, body[k].id)
                 /\ in_section(Row(db.items, body[k].id))
                 /\ LET its == stores_of(Row(db.items, body[k].id))
                    IN its = {} \/ X \in its
           /\ \A j, k \in 1..Len(body) : j # k => body[j].id # body[k].id

(* A listing for a store that returned an item sold at two stores and left *)
(* out an item sold only at the other store.                               *)
C9_Witness ==
    /\ resp.op = "list_items"
    /\ resp.args[1] = Some(1)
    /\ \E k \in 1..Len(resp.body) : Len(resp.body[k].stores) = 2
    /\ \E i \in db.items :
          /\ \E p \in db.item_stores : p.item_id = i.id /\ p.store_id = 2
          /\ ~\E p \in db.item_stores : p.item_id = i.id /\ p.store_id = 1

(***************************************************************************)
(* C4: delete_store on an existing store answers 409, with the number of  *)
(* item_stores rows that reference the store in the message and the whole *)
(* database as it was, exactly when at least one such row exists; with no *)
(* such row it answers 204, the store row is gone and every other row is  *)
(* as it was.  delete_provider does the same with the appointments that   *)
(* reference the provider.                                                 *)
(***************************************************************************)
BlockedDeleteRule(d, e, r, op, table, n) ==
    (r.op = op /\ Exists(d[table], r.args[1])) =>
        IF n >= 1
        THEN /\ r.status = 409
             /\ r.body[2] = n
             /\ e = d
        ELSE /\ r.status = 204
             /\ ~Exists(e[table], r.args[1])
             /\ e = [d EXCEPT ![table] = {x \in @ : x.id # r.args[1]}]

C4_DeleteBlockedByDependents ==
    [][/\ BlockedDeleteRule(db, db', resp', "delete_store", "stores",
            Cardinality({p \in db.item_stores : p.store_id = resp'.args[1]}))
       /\ BlockedDeleteRule(db, db', resp', "delete_provider", "providers",
            Cardinality({a \in db.appointments :
                            a.provider_id = Some(resp'.args[1])}))]_vars

(* A store delete refused with two items counted, while a provider with   *)
(* an appointment stands by.                                               *)
C4_Witness ==
    /\ resp.op = "delete_store"
    /\ resp.status = 409
    /\ resp.body[2] = 2
    /\ \E p \in db.providers, a \in db.appointments : a.provider_id = Some(p.id)

(***************************************************************************)
(* C5: delete_item on an existing item answers 204 whatever rows refer to *)
(* the item, and afterwards no item_stores, grocery_items or              *)
(* grocery_template_items row has its id; delete_template on an existing  *)
(* template answers 204 and afterwards no grocery_template_items row has  *)
(* its id.                                                                 *)
(***************************************************************************)
References(d, column, id) ==
    {r \in d.item_stores \cup d.grocery_items \cup d.grocery_template_items :
        column \in DOMAIN r /\ r[column] = id}

CascadeRule(d, e, r, op, table, column) ==
    (r.op = op /\ Exists(d[table], r.args[1])) =>
        /\ r.status = 204
        /\ ~Exists(e[table], r.args[1])
        /\ References(e, column, r.args[1]) = {}

C5_DeleteCascades ==
    [][/\ CascadeRule(db, db', resp', "delete_item", "items", "item_id")
       /\ CascadeRule(db, db', resp', "delete_template", "grocery_templates",
                      "template_id")]_vars

(* Item 1 has just been deleted; the list entry and the template item    *)
(* numbered 1 went with it, those of item 2 are the ones left.            *)
C5_Witness ==
    /\ resp.op = "delete_item"
    /\ resp.args = <<1>>
    /\ resp.status = 204
    /\ {g.id : g \in db.grocery_items} = {2}
    /\ {ti.id : ti \in db.grocery_template_items} = {2}
    /\ db.item_stores = {[item_id |-> 2, store_id |-> 1, copy |-> 1]}

(***************************************************************************)
(* What an apply_template step expands: the template items of the         *)
(* template it names, as they were before the step, and the grocery rows  *)
(* the step added.                                                         *)
(***************************************************************************)
Applies(d, r) ==
    /\ r.op = "apply_template"
    /\ Exists(d.grocery_templates, r.args[1])
    /\ r.args[2] \in d.users

Expanded(d, r) == {ti \in d.grocery_template_items : ti.template_id = r.args[1]}

Added(d, e) == e.grocery_items \ d.grocery_items

(* The template item's quantity when present and non-empty, else the      *)
(* item's default_quantity.                                                *)
Resolved(d, ti) ==
    IF ti.quantity # Null /\ Len(Val(ti.quantity)) > 0
    THEN ti.quantity
    ELSE Row(d.items, ti.item_id).default_quantity

(***************************************************************************)
(* C6: apply_template on an existing template with N template items, for  *)
(* an existing user, adds exactly N grocery_items rows, all of that user   *)
(* and with purchased = false, keeps every row that was there, and        *)
(* answers 201 with items_added = N, template_id and user_id; so k        *)
(* applies in a row add k * N rows.                                        *)
(***************************************************************************)
C6_ApplyAddsOneRowPerTemplateItem ==
    [][Applies(db, resp') =>
        LET N == Cardinality(Expanded(db, resp'))
        IN /\ resp'.status = 201
           /\ resp'.body = [template_id |-> resp'.args[1],
                            user_id |-> resp'.args[2], items_added |-> N]
           /\ db.grocery_items \subseteq db'.grocery_items
           /\ Cardinality(Added(db, db')) = N
           /\ \A g \in Added(db, db') :
                  g.user_id = resp'.args[2] /\ g.purchased = FALSE]_vars

(***************************************************************************)
(* C7: every grocery_items row that a successful apply_template adds has  *)
(* the quantity of a template item of the template when that quantity is  *)
(* present and non-empty, and the default_quantity of that template       *)
(* item's item (absent if the item has none) otherwise; and every         *)
(* template item has such a row.                                           *)
(***************************************************************************)
C7_QuantityResolution ==
    [][(Applies(db, resp') /\ resp'.status = 201) =>
        /\ \A g \in Added(db, db') : \E ti \in Expanded(db, resp') :
               g.item_id = ti.item_id /\ g.quantity = Resolved(db, ti)
        /\ \A ti \in Expanded(db, resp') : \E g \in Added(db, db') :
               g.item_id = ti.item_id /\ g.quantity = Resolved(db, ti)]_vars

(* An apply has just added two rows: "abc" for the template item that     *)
(* says so, and the item's default "2" for the template item whose        *)
(* quantity is "".                                                         *)
C7_Witness ==
    /\ resp.op = "apply_template"
    /\ resp.status = 201
    /\ resp.body.items_added = 2
    /\ Cardinality(db.grocery_items) = 2
    /\ {ti.quantity : ti \in db.grocery_template_items}
         = {Some(<<>>), Some(<<"a", "b", "c">>)}
    /\ {g.quantity : g \in db.grocery_items}
         = {Some(<<"2">>), Some(<<"a", "b", "c">>)}

(***************************************************************************)
(* C8: every grocery_items row that apply_template adds has int_quantity  *)
(* equal to the integer its quantity parses to when the item's            *)
(* quantity_is_int is true and the quantity is present and parses, and    *)
(* unset otherwise; and a template item whose quantity fails to parse     *)
(* does not stop the apply: it answers 201 and the row is there with the  *)
(* quantity as text and no int_quantity.                                   *)
(***************************************************************************)
ParsesAsInt(d, ti) ==
    /\ Row(d.items, ti.item_id).quantity_is_int
    /\ Resolved(d, ti) # Null
    /\ Val(Resolved(d, ti)) # <<>>
    /\ PyInt(Val(Resolved(d, ti))).ok

FailsToParse(d, ti) ==
    /\ Row(d.items, ti.item_id).quantity_is_int
    /\ Resolved(d, ti) # Null
    /\ Val(Resolved(d, ti)) # <<>>
    /\ ~PyInt(Val(Resolved(d, ti))).ok

C8_ParseFailureTolerated ==
    [][Applies(db, resp') =>
        /\ \A g \in Added(db, db') : \E ti \in Expanded(db, resp') :
               /\ g.item_id = ti.item_id
               /\ g.quantity = Resolved(db, ti)
               /\ g.int_quantity =
                      IF ParsesAsInt(db, ti)
                      THEN Some(PyInt(Val(Resolved(db, ti))).value)
                      ELSE Null
        /\ \A ti \in Expanded(db, resp') :
               FailsToParse(db, ti) =>
                   /\ resp'.status = 201
                   /\ \E g \in Added(db, db') :
                          /\ g.item_id = ti.item_id
                          /\ g.quantity = Resolved(db, ti)
                          /\ g.int_quantity = Null]_vars

(***************************************************************************)
(* C10: list_grocery_items with user_id = U and store_id = X answers 200  *)
(* and returns the grocery_items rows of user U whose item is associated  *)
(* with store X or with no store, and no other row: none whose item is    *)
(* only at other stores, none of another user; and each returned row      *)
(* once, also when its item is at several stores.                          *)
(***************************************************************************)
C10_ListGroceryItemsByStore ==
    (resp.op = "list_grocery_items" /\ resp.args[2] # Null) =>
        LET U == resp.args[1]
            X == Val(resp.args[2])
            body == resp.body
            stores_of(item_id) ==
                {p.store_id : p \in {q \in db.item_stores : q.item_id = item_id}}
            listed(g) == \E k \in 1..Len(body) : body[k].id = g.id
        IN /\ resp.status = 200
           /\ \A g \in db.grocery_items :
                 listed(g) <=>
                     /\ g.user_id = U
                     /\ (stores_of(g.item_id) = {} \/ X \in stores_of(g.item_id))
           /\ \A k \in 1..Len(body) :
                 \E g \in db.grocery_items : g.id = body[k].id /\ body[k].user_id = U
           /\ \A j, k \in 1..Len(body) : j # k => body[j].id # body[k].id

(* A listing for user 1 at store 2 that returned, once, an entry whose    *)
(* item is at both stores, and left out the entry of user 2.              *)
C10_Witness ==
    /\ resp.op = "list_grocery_items"
    /\ resp.args = <<1, Some(2)>>
    /\ Len(resp.body) = 1
    /\ Len(resp.body[1].item.stores) = 2
    /\ \E g \in db.grocery_items : g.user_id = 2

(***************************************************************************)
(* C11: after a create_item or an update_item that succeeds and supplies  *)
(* store_ids, the stores associated with the item are exactly those of    *)
(* the list, whatever was associated before (none for the empty list),    *)
(* and the item_stores rows of every other item are as they were.          *)
(***************************************************************************)
SetsStores(r) ==
    \/ r.op = "create_item" /\ r.status = 201
    \/ r.op = "update_item" /\ r.status = 200 /\ r.args[2].store_ids # Null

SuppliedStores(r) ==
    LET l == IF r.op = "create_item" THEN r.args[5] ELSE Val(r.args[2].store_ids)
    IN {l[i] : i \in 1..Len(l)}

StoresOf(d, item_id) == {p.store_id : p \in {q \in d.item_stores : q.item_id = item_id}}

C11_StoreIdsReplaceAssociations ==
    [][SetsStores(resp') =>
        /\ StoresOf(db', resp'.body.id) = SuppliedStores(resp')
        /\ {p \in db'.item_stores : p.item_id # resp'.body.id}
             = {p \in db.item_stores : p.item_id # resp'.body.id}]_vars

(* An update has just given item 1 the list with store 2 alone: item 1   *)
(* is at store 2 and nowhere else, and item 2 is at store 1.               *)
C11_Witness ==
    /\ resp.op = "update_item"
    /\ resp.status = 200
    /\ resp.args = <<1, [NoItemUpdate EXCEPT !.store_ids = Some(<<2>>)]>>
    /\ StoresOf(db, 1) = {2}
    /\ StoresOf(db, 2) = {1}

(***************************************************************************)
(* C12: in every reachable state no two item_stores rows hold the same    *)
(* (item_id, store_id) pair, also after a create_item or an update_item   *)
(* whose store_ids names one existing store twice.                         *)
(***************************************************************************)
C12_ItemStorePairsUnique ==
    \A p, q \in db.item_stores : SamePair(p, q) => p = q

(* An update_item with store 1 named twice has just been answered.        *)
C12_Witness ==
    /\ resp.op = "update_item"
    /\ resp.args[2].store_ids = Some(<<1, 1>>)
    /\ Exists(db.stores, 1)
    /\ Exists(db.items, resp.args[1])
    /\ resp.status = 500

(***************************************************************************)
(* C13: every create or update that names a foreign key whose target row  *)
(* does not exist (grocery item: item_id, user_id; template: user_id;      *)
(* template item: template_id, item_id; task: assigned_to; appointment:    *)
(* created_by, provider_id; item: any store id) is answered 404 and leaves *)
(* every table as it was.                                                   *)
(***************************************************************************)
MissingOptional(rows, o) == o # Null /\ ~Exists(rows, Val(o))

MissingStore(d, store_ids) ==
    \E i \in 1..Len(store_ids) : ~Exists(d.stores, store_ids[i])

NamesMissingTarget(d, r) ==
    \/ /\ r.op = "create_grocery_item"
       /\ ~Exists(d.items, r.args[1]) \/ r.args[4] \notin d.users
    \/ /\ r.op = "create_template"
       /\ r.args[3] \notin d.users
    \/ /\ r.op = "add_item_to_template"
       /\ ~Exists(d.grocery_templates, r.args[1]) \/ ~Exists(d.items, r.args[2])
    \/ /\ r.op = "create_task"
       /\ r.args[4] # Null
       /\ Val(r.args[4]) \notin d.users
    \/ /\ r.op = "update_task"
       /\ r.args[2].assigned_to # Null
       /\ Val(r.args[2].assigned_to) \notin d.users
    \/ /\ r.op = "create_appointment"
       /\ MissingOptional(d.providers, r.args[2]) \/ r.args[3] \notin d.users
    \/ /\ r.op = "update_appointment"
       /\ MissingOptional(d.providers, r.args[2])
    \/ /\ r.op = "create_item"
       /\ MissingStore(d, r.args[5])
    \/ /\ r.op = "update_item"
       /\ r.args[2].store_ids # Null
       /\ MissingStore(d, Val(r.args[2].store_ids))

C13_MissingTargetIsNotFound ==
    [][NamesMissingTarget(db, resp') => resp'.status = 404 /\ db' = db]_vars

(***************************************************************************)
(* C14: for every entity, a successful update changes only the fields     *)
(* supplied in the partial payload; every unsupplied field of the          *)
(* addressed row (other than updated_at) and every field of every other    *)
(* row keeps its previous value.                                            *)
(***************************************************************************)
UpdatedTable ==
    [update_store |-> "stores", update_item |-> "items",
     update_grocery_item |-> "grocery_items",
     update_template |-> "grocery_templates",
     update_provider |-> "providers", update_appointment |-> "appointments",
     update_task |-> "tasks"]

IsUpdate(r) == r.op \in DOMAIN UpdatedTable /\ r.status = 200

(* The fields a request supplies, by the name of their column.             *)
Supplied(r) ==
    IF r.op \in {"update_store", "update_provider"}
    THEN IF r.args[2] # Null THEN {"name"} ELSE {}
    ELSE IF r.op = "update_template"
    THEN (IF r.args[2] # Null THEN {"name"} ELSE {})
             \cup (IF r.args[3] # Null THEN {"is_default"} ELSE {})
    ELSE IF r.op = "update_appointment"
    THEN (IF r.args[2] # Null THEN {"provider_id"} ELSE {})
             \cup (IF r.args[3] # Null THEN {"title"} ELSE {})
    ELSE {f \in DOMAIN r.args[2] : r.args[2][f] # Null}

(* The unsupplied columns of the addressed row, updated_at aside.          *)
RowFrame(d, e, r) ==
    LET old == Row(d[UpdatedTable[r.op]], r.args[1])
        new == Row(e[UpdatedTable[r.op]], r.args[1])
    IN \A f \in DOMAIN old \ ({"updated_at"} \cup Supplied(r)) :
           new[f] = old[f]

(* The store pairs: those of other items, and those of the addressed item  *)
(* when store_ids is not supplied.                                          *)
PairsFrame(d, e, r) ==
    LET kept(p) == \/ r.op # "update_item"
                   \/ p.item_id # r.args[1]
                   \/ "store_ids" \notin Supplied(r)
    IN {p \in e.item_stores : kept(p)} = {p \in d.item_stores : kept(p)}

(* The rows of table t other than the addressed row.                       *)
OtherRows(d, r, t) ==
    {x \in d[t] : t # UpdatedTable[r.op] \/ x.id # r.args[1]}

OtherRowsFrame(d, e, r) ==
    \A t \in DOMAIN d \ {"item_stores"} : OtherRows(e, r, t) = OtherRows(d, r, t)

C14_UpdateChangesOnlySuppliedFields ==
    [][IsUpdate(resp') =>
          /\ RowFrame(db, db', resp')
          /\ PairsFrame(db, db', resp')
          /\ OtherRowsFrame(db, db', resp')]_vars

(* C14, amended: as above, except that an update_template that supplies    *)
(* is_default = true sets is_default to false on the other templates of    *)
(* the same user, and changes nothing else of them.                         *)
SetsDefault(r) == r.op = "update_template" /\ r.args[3] = Some(TRUE)

OtherRowsFrameButDefaults(d, e, r) ==
    \A t \in DOMAIN d \ {"item_stores"} :
        IF SetsDefault(r) /\ t = "grocery_templates"
        THEN LET user_id == Row(d.grocery_templates, r.args[1]).user_id
             IN OtherRows(e, r, t) =
                    {IF x.user_id = user_id
                        THEN [x EXCEPT !.is_default = FALSE] ELSE x :
                     x \in OtherRows(d, r, t)}
        ELSE OtherRows(e, r, t) = OtherRows(d, r, t)

C14_UpdateFrameButDefaults ==
    [][IsUpdate(resp') =>
          /\ RowFrame(db, db', resp')
          /\ PairsFrame(db, db', resp')
          /\ OtherRowsFrameButDefaults(db, db', resp')]_vars

(* A template renamed and made the default: the user's other template,     *)
(* created as the default after it, is no longer the default.               *)
C14_Witness ==
    /\ resp.op = "update_template"
    /\ resp.status = 200
    /\ resp.args = <<1, Some("Pets"), Some(TRUE)>>
    /\ \E x \in db.grocery_templates :
          x.id = 2 /\ x.user_id = resp.body.user_id /\ ~x.is_default

(***************************************************************************)
(* C15: updated_at is refreshed by every operation that writes the row or *)
(* data owned by it: an update that supplies a field, update_item          *)
(* supplying only store_ids among them, stamps the addressed row, and the  *)
(* clearing of is_default by create_template and update_template stamps   *)
(* the templates it clears; created_at of a row never changes.  A step     *)
(* that leaves the clock alone is a request.                                *)
(***************************************************************************)
(* The templates whose is_default a step took away.                        *)
ClearedTemplates(d, e) ==
    {x \in e.grocery_templates :
        /\ ~x.is_default
        /\ Exists(d.grocery_templates, x.id)
        /\ Row(d.grocery_templates, x.id).is_default}

CreatedAtKept(d, e) ==
    \A t \in DOMAIN d \ {"users", "item_stores"} :
        \A x \in d[t], y \in e[t] : x.id = y.id => y.created_at = x.created_at

C15_UpdatedAtRefreshedOnWrite ==
    [][now' = now =>
          /\ IsUpdate(resp') /\ Supplied(resp') # {} =>
                 Row(db'[UpdatedTable[resp'.op]], resp'.args[1]).updated_at = now
          /\ resp'.op \in {"create_template", "update_template"} =>
                 \A x \in ClearedTemplates(db, db') : x.updated_at = now
          /\ CreatedAtKept(db, db')]_vars

(***************************************************************************)
(* C16: an update with an empty partial payload on an existing row        *)
(* succeeds and leaves all non-timestamp fields unchanged, and updated_at  *)
(* is still stamped with the current time.                                  *)
(***************************************************************************)
IsEmptyUpdate(d, r) ==
    /\ r.op \in DOMAIN UpdatedTable
    /\ Supplied(r) = {}
    /\ Exists(d[UpdatedTable[r.op]], r.args[1])

C16_EmptyUpdateStillStamps ==
    [][now' = now /\ IsEmptyUpdate(db, resp') =>
          /\ resp'.status = 200
          /\ RowFrame(db, db', resp')
          /\ Row(db'[UpdatedTable[resp'.op]], resp'.args[1]).updated_at = now]_vars

(* C16, amended: an update with an empty partial payload on an existing    *)
(* row succeeds and leaves every field of the row unchanged, updated_at    *)
(* included: the stored state is as it was.                                 *)
C16_EmptyUpdateChangesNothing ==
    [][now' = now /\ IsEmptyUpdate(db, resp') =>
          /\ resp'.status = 200
          /\ db' = db]_vars

(* A provider updated with no field after the clock has moved on: the      *)
(* request succeeded and the row still has its earlier updated_at.          *)
C16_Witness ==
    /\ resp.op = "update_provider"
    /\ resp.args = <<1, Null>>
    /\ resp.status = 200
    /\ resp.body.updated_at < now
    /\ Row(db.providers, 1).updated_at < now

(***************************************************************************)
(* C17: remove_item_from_template(template_id, template_item_id) deletes  *)
(* the template item, and nothing else, when it belongs to the given       *)
(* template, answering 204; when the template item belongs to another      *)
(* template or does not exist the call answers 404 and no template item    *)
(* of any template is removed.                                              *)
(***************************************************************************)
BelongsTo(d, template_id, item_id) ==
    \E ti \in d.grocery_template_items :
        ti.id = item_id /\ ti.template_id = template_id

C17_RemoveScopedToTemplate ==
    [][resp'.op = "remove_item_from_template" =>
          IF BelongsTo(db, resp'.args[1], resp'.args[2])
          THEN /\ resp'.status = 204
               /\ db' = [db EXCEPT !.grocery_template_items =
                            {ti \in @ : ti.id # resp'.args[2]}]
          ELSE /\ resp'.status = 404
               /\ db' = db]_vars

(* Template item 2, of template 2, named in a removal from template 1:     *)
(* answered 404, and the template item is still there.                      *)
C17_Witness ==
    /\ resp.op = "remove_item_from_template"
    /\ resp.args = <<1, 2>>
    /\ resp.status = 404
    /\ Exists(db.grocery_templates, 1)
    /\ \E ti \in db.grocery_template_items : ti.id = 2 /\ ti.template_id = 2

(***************************************************************************)
(* C18: list_tasks returns the tasks matching all supplied filters, each  *)
(* once, ordered by completed ascending (incomplete first), then due_date  *)
(* ascending with tasks without a due date after those with one, then      *)
(* created_at descending.                                                   *)
(***************************************************************************)
(* a has to come before b: the due dates are compared as the points in     *)
(* time they are.                                                           *)
ListedBefore(a, b) ==
    IF a.completed # b.completed THEN b.completed
    ELSE IF (a.due_date = Null) # (b.due_date = Null) THEN b.due_date = Null
    ELSE IF a.due_date # Null
            /\ Instant(Val(a.due_date)) # Instant(Val(b.due_date))
    THEN Instant(Val(a.due_date)) < Instant(Val(b.due_date))
    ELSE a.created_at > b.created_at

C18_ListTasksFilteredAndOrdered ==
    resp.op = "list_tasks" =>
        /\ resp.status = 200
        /\ \A j, k \in 1..Len(resp.body) : j # k => resp.body[j] # resp.body[k]
        /\ {resp.body[k].id : k \in 1..Len(resp.body)}
               = {x.id : x \in {y \in db.tasks :
                      /\ resp.args[1] # Null => y.assigned_to = resp.args[1]
                      /\ resp.args[2] # Null => y.category = Val(resp.args[2])}}
        /\ \A j, k \in 1..Len(resp.body) :
               j < k => ~ListedBefore(resp.body[k], resp.body[j])

(***************************************************************************)
(* C19: in every multi-step operation all validation completes before the *)
(* first mutating statement: a create_item or update_item that ends in     *)
(* NotFound or Conflict has executed no write, neither of the item row nor *)
(* of its store pairs, when it fails.                                       *)
(***************************************************************************)
(* The database inside the transaction at the point where the handler of   *)
(* the request r raised, the request having met the database d.            *)
AtFailure(d, t, r) ==
    IF r.op = "update_item"
    THEN update_item(d, t, r.args[1], r.args[2]).db
    ELSE create_item(d, t, r.args[1], r.args[2], r.args[3], r.args[4],
                     r.args[5]).db

C19_NoWriteBeforeValidationFails ==
    [][/\ resp'.op \in {"create_item", "update_item"}
       /\ resp'.status \in {404, 409}
       => AtFailure(db, now, resp') = db]_vars

(***************************************************************************)
(* C20: whenever an operation ends in an error (404, 409 or an unexpected *)
(* exception, 500) the committed state after it equals the committed       *)
(* state before it, even if the operation had executed writes inside its   *)
(* transaction.                                                             *)
(***************************************************************************)
C20_ErrorLeavesStateUnchanged ==
    [][resp'.status >= 400 => db' = db]_vars

(* update_item with a new name and section and a store list whose second   *)
(* store does not exist: answered 404 after the UPDATE of the item row,    *)
(* and the row has the name and section it had.                             *)
C20_Witness ==
    /\ resp.op = "update_item"
    /\ resp.status = 404
    /\ resp.args = <<1, [NoItemUpdate EXCEPT !.name = Some("Butter"),
                                             !.section = Some("Dairy"),
                                             !.store_ids = Some(<<1, MissingId>>)]>>
    /\ Exists(db.items, 1)
    /\ Exists(db.stores, 1)
    /\ Row(db.items, 1).name = "Apples"
    /\ Row(db.items, 1).section = Null
    /\ update_item(db, now, 1, resp.args[2]).db # db

(***************************************************************************)
(* C21: checks are evaluated in the order existence, then uniqueness,     *)
(* then dependent count: a create_item or update_item that names a store   *)
(* that does not exist and carries a name another item has is answered     *)
(* 404, not 409, and a delete_store of a store that does not exist is      *)
(* answered 404.                                                            *)
(***************************************************************************)
(* The request fails an existence check and a uniqueness check at once.    *)
FailsBothChecks(d, r) ==
    \/ /\ r.op = "create_item"
       /\ \E i \in d.items : i.name = r.args[1]
       /\ MissingStore(d, r.args[5])
    \/ /\ r.op = "update_item"
       /\ Exists(d.items, r.args[1])
       /\ r.args[2].name # Null
       /\ \E i \in d.items : i.name = Val(r.args[2].name) /\ i.id # r.args[1]
       /\ r.args[2].store_ids # Null
       /\ MissingStore(d, Val(r.args[2].store_ids))

C21_ExistenceBeforeUniqueness ==
    [][/\ FailsBothChecks(db, resp') => resp'.status = 404
       /\ resp'.op = "delete_store" /\ ~Exists(db.stores, resp'.args[1])
              => resp'.status = 404]_vars

(***************************************************************************)
(* C30: apply_template(template_id, user_id) does not require the         *)
(* template to be owned by user_id: it is answered 404 exactly when the    *)
(* template or the user does not exist.  It inserts grocery items only     *)
(* for the given user_id and leaves templates, template items, items,      *)
(* item-store pairs and every grocery item there was, of any user,         *)
(* unchanged.                                                               *)
(***************************************************************************)
C30_ApplyFrame ==
    [][resp'.op = "apply_template" =>
          /\ resp'.status = 404 <=>
                 \/ ~Exists(db.grocery_templates, resp'.args[1])
                 \/ resp'.args[2] \notin db.users
          /\ \A t \in DOMAIN db \ {"grocery_items"} : db'[t] = db[t]
          /\ db.grocery_items \subseteq db'.grocery_items
          /\ \A g \in db'.grocery_items \ db.grocery_items :
                 g.user_id = resp'.args[2]]_vars

(* The template of user 1 applied for user 2, after it was applied for     *)
(* user 1: one row added for user 2, the row of user 1 still there.        *)
C30_Witness ==
    /\ resp.op = "apply_template"
    /\ resp.args = <<1, 2>>
    /\ resp.status = 201
    /\ resp.body.items_added = 1
    /\ Row(db.grocery_templates, 1).user_id = 1
    /\ {g.user_id : g \in db.grocery_items} = {1, 2}

(***************************************************************************)
(* C29: no update can reset a stored optional field to null: once         *)
(* assigned_to or due_date of a task, or provider_id of an appointment,    *)
(* is non-null it stays non-null in every later state in which the row     *)
(* is there.                                                                *)
(***************************************************************************)
StaysSet(before, after, field) ==
    \A x \in before, y \in after :
        x.id = y.id /\ x[field] # Null => y[field] # Null

C29_OptionalFieldsNeverReset ==
    [][/\ StaysSet(db.tasks, db'.tasks, "assigned_to")
       /\ StaysSet(db.tasks, db'.tasks, "due_date")
       /\ StaysSet(db.appointments, db'.appointments, "provider_id")]_vars

(* An appointment with a provider updated in its title alone: the          *)
(* provider is still set.                                                   *)
C29_Witness ==
    /\ resp.op = "update_appointment"
    /\ resp.status = 200
    /\ resp.args = <<1, Null, Some("Follow-up")>>
    /\ Row(db.appointments, 1).provider_id = Some(1)

(***************************************************************************)
(* C26: in every reachable state every item_stores row names an item and  *)
(* a store that exist, every grocery_items and grocery_template_items row *)
(* names an item that exists, every grocery_template_items row names a    *)
(* template that exists, and every appointment with a provider_id names a *)
(* provider that exists.                                                   *)
(***************************************************************************)
C26_ReferentialIntegrity ==
    /\ \A p \in db.item_stores :
          Exists(db.items, p.item_id) /\ Exists(db.stores, p.store_id)
    /\ \A g \in db.grocery_items : Exists(db.items, g.item_id)
    /\ \A ti \in db.grocery_template_items :
          Exists(db.items, ti.item_id)
              /\ Exists(db.grocery_templates, ti.template_id)
    /\ \A a \in db.appointments :
          a.provider_id # Null => Exists(db.providers, Val(a.provider_id))

(* Store 1 is sold-in by an item and its delete has just been refused;    *)
(* the pair is still there.                                                *)
C26_Witness ==
    /\ resp.op = "delete_store"
    /\ resp.args = <<1>>
    /\ resp.status = 409
    /\ db.item_stores # {}

(***************************************************************************)
(* C22: no committed state, which is what every other request reads, has  *)
(* two default templates of one user, and a request that replaces an      *)
(* item's stores changes the committed set of the item's stores in one    *)
(* step, from the set before to exactly the set it was given: no          *)
(* committed state holds part of the old set and part of the new one.     *)
(***************************************************************************)
CommittedStores(d, item_id) ==
    {p.store_id : p \in {q \in d.item_stores : q.item_id = item_id}}

Replaces(k, item_id) ==
    /\ k.op = "update_item"
    /\ k.pc = "exit"
    /\ ~k.raised
    /\ k.args[1] = item_id
    /\ k.args[2].store_ids # Null

C22_WritesAtomicToObservers ==
    /\ [](\A user_id \in Users :
             Cardinality({r \in db.grocery_templates :
                             r.user_id = user_id /\ r.is_default}) <= 1)
    /\ [][conns' # conns =>
             \A item_id \in {i.id : i \in db.items} :
                 CommittedStores(db', item_id) # CommittedStores(db, item_id) =>
                     \E c \in Conns :
                         /\ Replaces(conns[c], item_id)
                         /\ CommittedStores(db', item_id) =
                              {Val(conns[c].args[2].store_ids)[n] :
                                  n \in 1..Len(Val(conns[c].args[2].store_ids))}]_vars

(* A request has deleted the item's pairs and not yet inserted the new    *)
(* ones, a second request is running, and the committed database still    *)
(* holds the old pair; and a request has cleared the user's default and   *)
(* not yet set its own, the committed database still showing the old one. *)
C22_Witness ==
    \E c, o \in Conns :
        /\ c # o
        /\ InBody(o)
        /\ \/ /\ conns[c].pc = "set_insert"
              /\ CommittedStores(View(c), 1) = {}
              /\ CommittedStores(db, 1) = {1}
           \/ /\ conns[c].pc = "update"
              /\ conns[c].op = "update_template"
              /\ \E r \in db.grocery_templates : r.is_default
              /\ ~\E r \in View(c).grocery_templates : r.is_default

(***************************************************************************)
(* C23: when two requests that ran at the same time, each making another  *)
(* template of one user the default (update_template with is_default =    *)
(* true), have both committed, at most one template of the user is the    *)
(* default.                                                                *)
(***************************************************************************)
SetDefaultCommitted(k) ==
    /\ k.op = "update_template"
    /\ k.args[3] = Some(TRUE)
    /\ k.pc \in {"close", "closed"}
    /\ ~k.raised

BothSetDefault ==
    /\ \A c \in Conns : SetDefaultCommitted(conns[c])
    /\ \A c, o \in Conns : c # o => conns[c].args[1] # conns[o].args[1]

C23_ConcurrentDefaultsLeaveOne ==
    BothSetDefault =>
        \A user_id \in Users :
            Cardinality({r \in db.grocery_templates :
                            r.user_id = user_id /\ r.is_default}) <= 1

(* Both requests answered 200; the one answered last had committed first, *)
(* so the template it made the default has been cleared by the other.     *)
C23_Witness ==
    /\ BothSetDefault
    /\ \A c \in Conns : conns[c].pc = "closed" /\ conns[c].status = 200
    /\ \E r \in db.grocery_templates : r.is_default
    /\ resp.op = "update_template"
    /\ resp.status = 200
    /\ resp.body.is_default
    /\ ~Row(db.grocery_templates, resp.body.id).is_default

(***************************************************************************)
(* C24: every step of an apply_template inside its loop over the template *)
(* items it loaded either ends the request with an error, or deals with   *)
(* one loaded row whose item exists and counts it; when the item of the   *)
(* row it is at is gone the step ends the request with an error.  The     *)
(* request answers success only after the last loaded row, with the       *)
(* number of loaded rows as items_added, and a request that ended with an *)
(* error commits nothing.                                                  *)
(***************************************************************************)
InApplyLoop(k) == k.op = "apply_template" /\ k.pc \in {"item", "insert"}

Vanished(c) == ~Exists(View(c).items, Head(conns[c].loc.rows).item_id)

C24_VanishedItemFailsApply ==
    [][\A c \in Conns :
          /\ (InApplyLoop(conns[c]) /\ conns'[c] # conns[c]) =>
                \/ conns'[c].pc = "exit" /\ conns'[c].raised
                                         /\ conns'[c].status = 500
                \/ /\ ~Vanished(c)
                   /\ InApplyLoop(conns'[c])
                   /\ conns'[c].loc.items_added + Len(conns'[c].loc.rows)
                        = conns[c].loc.items_added + Len(conns[c].loc.rows)
                \/ /\ ~Vanished(c)
                   /\ conns'[c].pc = "exit" /\ ~conns'[c].raised
                   /\ Len(conns[c].loc.rows) = 1
                   /\ conns'[c].body.items_added = conns[c].loc.items_added + 1
          /\ (conns[c].pc = "exit" /\ conns[c].raised /\ conns'[c] # conns[c])
                => db' = db]_vars

(* The item was deleted after the template items were loaded: the delete  *)
(* answered 204, the apply ended with TypeError, and no grocery item was  *)
(* committed.                                                              *)
C24_Witness ==
    \E c, o \in Conns :
        /\ conns[c].op = "apply_template"
        /\ conns[c].pc = "closed"
        /\ conns[c].raised
        /\ conns[c].body = <<"TypeError">>
        /\ conns[o].op = "delete_item"
        /\ conns[o].pc = "closed"
        /\ conns[o].status = 204
        /\ db.grocery_items = {}
        /\ db.grocery_template_items # {}

(***************************************************************************)
(* C25: the steps of a get_db scope are statements of the body, then one  *)
(* conn.commit() if the body returned or one conn.rollback() if it raised *)
(* (the client then gets the error), then conn.close(), and nothing after *)
(* it; the commit publishes what the body wrote, the rollback leaves the  *)
(* committed database as it was; and every scope that was entered gets    *)
(* to its close.                                                           *)
(***************************************************************************)
ScopeEnds == {"commit", "rollback"}

ScopeInOrder(k) ==
    LET n == Len(k.log)
    IN /\ \A i \in 1..n :
             /\ k.log[i] \in ScopeEnds =>
                   /\ \A j \in 1..(i - 1) : k.log[j] = "execute"
                   /\ k.log[i] = (IF k.raised THEN "rollback" ELSE "commit")
                   /\ i >= n - 1
             /\ k.log[i] = "close" =>
                   i = n /\ i > 1 /\ k.log[i - 1] \in ScopeEnds
             /\ k.log[i] = "execute" => i = 1 \/ k.log[i - 1] = "execute"
       /\ k.pc = "closed" =>
             /\ n > 1 /\ k.log[n] = "close"
             /\ k.work = Null
             /\ k.raised <=> k.status >= 400

Creates(k) == k.op \in {"create_store", "create_item"}

Committed(k) == k.pc \in {"close", "closed"} /\ ~k.raised

C27_ConcurrentCreatesKeepNamesUnique ==
    /\ \A table \in {"stores", "items"} :
          \A r, q \in db[table] : r.name = q.name => r.id = q.id
    /\ \A c, o \in Conns :
          (/\ c # o
           /\ Creates(conns[c])
           /\ conns[o].op = conns[c].op
           /\ conns[o].args[1] = conns[c].args[1])
              => ~(Committed(conns[c]) /\ Committed(conns[o]))

(* Both requests passed the duplicate-name SELECT before either wrote;    *)
(* one committed its row and the INSERT of the other was refused.          *)
C27_Witness ==
    \E c, o \in Conns :
        /\ conns[c].op = "create_store"
        /\ conns[o].op = "create_store"
        /\ conns[c].pc = "closed"
        /\ conns[c].status = 201
        /\ conns[o].pc = "closed"
        /\ conns[o].raised
        /\ conns[o].body = <<"IntegrityError">>
        /\ Cardinality(db.stores) = 1

(***************************************************************************)
(* C28: with delete_store running at the same time as create_item and     *)
(* update_item requests that name the store, every item_stores row of     *)
(* every committed state names a store that exists; once the delete has   *)
(* committed no committed row names the deleted store.                     *)
(***************************************************************************)
C28_NoPairOfDeletedStore ==
    /\ \A p \in db.item_stores : Exists(db.stores, p.store_id)
    /\ \A c \in Conns :
          (conns[c].op = "delete_store" /\ Committed(conns[c])) =>
              ~\E p \in db.item_stores : p.store_id = conns[c].args[1]

(* The item request found the store, the delete counted no dependents     *)
(* and committed, and the INSERT of the pair was refused afterwards.       *)
C28_Witness ==
    \E c, o \in Conns :
        /\ conns[c].op = "delete_store"
        /\ conns[c].pc = "closed"
        /\ conns[c].status = 204
        /\ conns[o].op \in {"create_item", "update_item"}
        /\ conns[o].pc = "closed"
        /\ conns[o].raised
        /\ conns[o].body = <<"IntegrityError">>
        /\ db.stores = {}
        /\ db.item_stores = {}

====
